---------------------------- MODULE Spec2Model ----------------------------
(***************************************************************************)
(* A model of the electrolens package: property schemas (plot.py), the     *)
(* data converters (converter.py), views (view.py) and the Plot aggregate  *)
(* (plot.py).                                                              *)
(*                                                                         *)
(* Python values are modelled as follows.  None is the record None.  A     *)
(* number n is Num(n) and a string s is Str(s) wherever the program keeps  *)
(* them in the same slot (csv fields, row mappings, optional arguments).   *)
(* A list is a sequence, a dict is a function from its keys.  A call that  *)
(* may raise returns a record whose field exc is "" when it returned       *)
(* normally and the exception's type name otherwise.                       *)
(*                                                                         *)
(* Where a statement's result is used several times, it is bound once as   *)
(* the element of a singleton set (CHOOSE out \in {e(r) : r \in {call}}),   *)
(* which is the value e(call) with call evaluated a single time.           *)
(***************************************************************************)
EXTENDS Integers, Sequences, FiniteSets, TLC

VARIABLES
    plot,     \* the Plot object of the session, None before construction
    fs,       \* the file system: path -> contents of the file at that path
    call,     \* the last operation called, with its arguments
    result,   \* what that operation returned or raised
    process   \* the interpreter: the module namespaces and standard output

vars == <<plot, fs, call, result, process>>

---------------------------------------------------------------------------
(* Bounds of the model *)

MaxCols == 5

MaxAtoms == 2

MaxFrames == 2

MaxViews == 3

---------------------------------------------------------------------------
(* Python values *)

None == [py |-> "None"]

Num(n) == [n |-> n]

Str(s) == [s |-> s]

IsStr(v) == "s" \in DOMAIN v

\* str(v) as csv.writer applies it to every field of a row
PyStr(v) == IF "n" \in DOMAIN v THEN ToString(v.n) ELSE v.s

EmptyDict == [k \in {} |-> k]

\* d[k] = v on a dict
Put(d, k, v) == [y \in DOMAIN d \cup {k} |-> IF y = k THEN v ELSE d[y]]

\* v in l, on a list
Contains(l, v) == \E i \in 1..Len(l) : l[i] = v

\* l.index(v) (1-based here); the caller checks Contains first, Python raises
\* ValueError when v is absent
ListIndex(l, v) == CHOOSE i \in 1..Len(l) : l[i] = v /\ \A j \in 1..(i - 1) : l[j] # v

\* the number of occurrences of v in l
Count(l, v) == Cardinality({i \in 1..Len(l) : l[i] = v})

\* the elements of a list, as a set
Elems(l) == {l[i] : i \in 1..Len(l)}

\* l.remove(v): the list without the first occurrence of v
ListRemove(l, v) ==
    LET i == ListIndex(l, v)
    IN  [j \in 1..(Len(l) - 1) |-> IF j < i THEN l[j] ELSE l[j + 1]]

\* all sequences over S of length at most n
SeqsUpTo(S, n) == UNION {[1..k -> S] : k \in 0..n}

\* the orders in which the elements of a set can be listed
Orders(S) == {s \in [1..Cardinality(S) -> S] : Elems(s) = S}

---------------------------------------------------------------------------
(* plot.py: property schemas *)

required_columns == {"x", "y", "z"}

\* SpatiallyResolvedDataProperties.__init__; columns is None or a list.
\* order is the iteration order of the required_columns set, which the
\* interpreter does not fix.
SpatiallyResolvedDataProperties_init(columns, density_property, low, up, order) ==
    LET self == [columns |-> IF columns = None THEN order \o <<density_property>>
                                               ELSE columns.l,
                 density_property |-> density_property,
                 density_lower_limit |-> low,
                 density_upper_limit |-> up]
    IN  IF columns = None
        THEN [exc |-> "", self |-> self]
        ELSE IF ~Contains(columns.l, density_property)
             THEN [exc |-> "ValueError", self |-> None]
             ELSE IF Cardinality(required_columns \ Elems(columns.l)) > 0
                  THEN [exc |-> "ValueError", self |-> None]
                  ELSE [exc |-> "", self |-> self]

\* SpatiallyResolvedDataProperties.add_plot_setup
SpatiallyResolvedDataProperties_add_plot_setup(self, configuration) ==
    LET cols_copy == IF ~Contains(self.columns, "atom")
                     THEN Append(self.columns, "atom")
                     ELSE self.columns
    IN  Put(Put(Put(Put(configuration,
            "spatiallyResolvedPropertyList", cols_copy),
            "pointcloudDensity", self.density_property),
            "densityCutoffLow", self.density_lower_limit),
            "densityCutoffUp", self.density_upper_limit)

MolecularDataProperties_init_TwoOfThree(columns, order) ==
    IF columns = None
    THEN [exc |-> "", self |-> [columns |-> order]]
    ELSE IF Cardinality(required_columns \ Elems(columns.l)) > 1
         THEN [exc |-> "ValueError", self |-> None]
         ELSE [exc |-> "", self |-> [columns |-> columns.l]]

\* MolecularDataProperties.__init__; columns is None or a list
MolecularDataProperties_init(columns, order) ==
    IF columns = None
    THEN [exc |-> "", self |-> [columns |-> order]]
    ELSE IF Cardinality(required_columns \ Elems(columns.l)) > 0
         THEN [exc |-> "ValueError", self |-> None]
         ELSE [exc |-> "", self |-> [columns |-> columns.l]]

MolecularDataProperties_add_plot_setup_Always(self, configuration) ==
    Put(configuration, "moleculePropertyList", Append(self.columns, "atom"))

\* MolecularDataProperties.add_plot_setup
MolecularDataProperties_add_plot_setup(self, configuration) ==
    LET cols_copy == IF ~Contains(self.columns, "atom")
                     THEN Append(self.columns, "atom")
                     ELSE self.columns
    IN  Put(configuration, "moleculePropertyList", cols_copy)

\* FramedDataProperties.__init__
FramedDataProperties_init(frame_column) == [frame_column |-> frame_column]

\* FramedDataProperties.add_plot_setup
FramedDataProperties_add_plot_setup(self, configuration) ==
    Put(configuration, "frameProperty", self.frame_column)

---------------------------------------------------------------------------
(* converter.py: the common steps *)

\* a lattice: three row vectors with integer components
Cell(m) == [m |-> m]

\* the integer square root; the cells of this model have rows of integer length
Isqrt(n) == CHOOSE r \in 0..n : r * r <= n /\ (r + 1) * (r + 1) > n

\* the L2 norm of a row vector
RowNorm(v) == Isqrt(v[1] * v[1] + v[2] * v[2] + v[3] * v[3])

\* ase Cell.lengths(): the lengths of the three row vectors
lengths(atoms_cell) == [i \in 1..3 |-> RowNorm(atoms_cell.m[i])]

\* sklearn normalize(X, axis=1): each row divided by its L2 norm, a row of
\* norm zero divided by one.  A quotient is kept as numerator and denominator.
normalize(atoms_cell) ==
    [i \in 1..3 |->
        LET norm == RowNorm(atoms_cell.m[i])
        IN  [j \in 1..3 |-> [num |-> atoms_cell.m[i][j],
                             den |-> IF norm = 0 THEN 1 ELSE norm]]]

\* message.py as the import leaves it: the module-level flag
message_module == [suppress_messages |-> FALSE]

\* the interpreter after `import electrolens`: the package's __init__ binds
\* its own name suppress_messages to the value the flag of the message
\* module has at that moment; nothing has been printed
import_electrolens ==
    [message |-> message_module,
     electrolens |-> [suppress_messages |-> message_module.suppress_messages],
     stdout |-> <<>>]

\* message._display_: print the line unless the flag of the message module
\* is set
_display_(p, msg) ==
    IF ~p.message.suppress_messages
    THEN [p EXCEPT !.stdout = Append(@, "electrolens: " \o msg)]
    ELSE p

\* message.warning
warning(p, msg) == _display_(p, "warning: " \o msg)

\* message.information
information(p, msg) == _display_(p, "information: " \o msg)

\* the warnings of _init_atoms_: one for each part of the geometry that the
\* output already holds
_init_atoms_messages(p, output) ==
    LET p1 == IF "systemDimension" \in DOMAIN output
              THEN warning(p, output["moleculeName"]
                       \o ": System Dimensions are overridden by user provided values")
              ELSE p
    IN  IF "systemLatticeVectors" \in DOMAIN output
        THEN warning(p1, output["moleculeName"]
                 \o ": System Lattice Vectors are overridden by user provided values")
        ELSE p1

_init_atoms_Overwrite(output, atoms_cell) ==
    LET lattice_constants == lengths(atoms_cell)
        lattice_vector == normalize(atoms_cell)
    IN  Put(Put(output, "systemDimension",
                [x |-> Num(lattice_constants[1]),
                 y |-> Num(lattice_constants[2]),
                 z |-> Num(lattice_constants[3])]),
            "systemLatticeVectors",
            [u11 |-> lattice_vector[1][1], u12 |-> lattice_vector[1][2],
             u13 |-> lattice_vector[1][3],
             u21 |-> lattice_vector[2][1], u22 |-> lattice_vector[2][2],
             u23 |-> lattice_vector[2][3],
             u31 |-> lattice_vector[3][1], u32 |-> lattice_vector[3][2],
             u33 |-> lattice_vector[3][3]])

\* _init_atoms_: derive systemDimension and systemLatticeVectors unless the
\* output already holds them
_init_atoms_(output, atoms_cell) ==
    LET lattice_constants == lengths(atoms_cell)
        o1 == IF "systemDimension" \in DOMAIN output
              THEN output
              ELSE Put(output, "systemDimension",
                       [x |-> Num(lattice_constants[1]),
                        y |-> Num(lattice_constants[2]),
                        z |-> Num(lattice_constants[3])])
        lattice_vector == normalize(atoms_cell)
    IN  IF "systemLatticeVectors" \in DOMAIN o1
        THEN o1
        ELSE Put(o1, "systemLatticeVectors",
                 [u11 |-> lattice_vector[1][1], u12 |-> lattice_vector[1][2],
                  u13 |-> lattice_vector[1][3],
                  u21 |-> lattice_vector[2][1], u22 |-> lattice_vector[2][2],
                  u23 |-> lattice_vector[2][3],
                  u31 |-> lattice_vector[3][1], u32 |-> lattice_vector[3][2],
                  u33 |-> lattice_vector[3][3]])

\* os.path.abspath of a relative path, with backslashes replaced by slashes
abspath(name) == "/cwd/" \o name

\* an open file: its name and the lines written to it so far
FileHandle(name) == [name |-> name, lines |-> <<>>]

_set_data_filename_KeepData(output, data_output_file) ==
    Put(Put(output, "data", <<>>), "dataFilename", abspath(data_output_file.name))

\* _set_data_filename_
_set_data_filename_(output, data_output_file) ==
    Put(output, "dataFilename", abspath(data_output_file.name))

writerows_SkipFirst(file, rows) ==
    [file EXCEPT !.lines =
        @ \o [i \in 1..(Len(rows) - 1) |->
                [j \in 1..Len(rows[i + 1]) |-> PyStr(rows[i + 1][j])]]]

\* csv.writer(file).writerow(row) for each row of rows: one line per row,
\* every field passed through str()
writerows(file, rows) ==
    [file EXCEPT !.lines =
        @ \o [i \in 1..Len(rows) |-> [j \in 1..Len(rows[i]) |-> PyStr(rows[i][j])]]]

RECURSIVE Concat(_)
\* the concatenation of a list of lists
Concat(ss) == IF ss = <<>> THEN <<>> ELSE Head(ss) \o Concat(Tail(ss))

\* columns.copy() with 'atom' appended when absent
WithAtom(columns) ==
    IF ~Contains(columns, "atom") THEN Append(columns, "atom") ELSE columns

\* a file handle event: path was opened, or the handle on it closed
Opened(path) == [ev |-> "open", name |-> path]
Closed(path) == [ev |-> "close", name |-> path]

\* the outcome of a conversion: the exception raised if any, the output
\* dictionary and the output file as the conversion left them, and the
\* events of the file handles the conversion opened itself, in order
Outcome(exc, output, file) ==
    [exc |-> exc, output |-> output, file |-> file, handles |-> <<>>]

---------------------------------------------------------------------------
(* converter.py: ASEAtomsToMolecularDataConverter *)

\* ASEAtomsToMolecularDataConverter.__convert__
ASEAtoms__convert__(data, output, properties, data_output_file) ==
    LET atoms == data.atoms
        o1 == _init_atoms_(output, data.cell)
        columns == WithAtom(properties.columns)
        x_index == ListIndex(columns, "x")
        y_index == ListIndex(columns, "y")
        z_index == ListIndex(columns, "z")
        atom_index == ListIndex(columns, "atom")
        row(atom) ==
            LET r0 == [i \in 1..Len(columns) |-> Str("")]
                r1 == [r0 EXCEPT ![x_index] = Num(atom.position[1])]
                r2 == [r1 EXCEPT ![y_index] = Num(atom.position[2])]
                r3 == [r2 EXCEPT ![z_index] = Num(atom.position[3])]
            IN  [r3 EXCEPT ![atom_index] = Str(atom.symbol)]
        other_columns == Elems(columns) \ {"x", "y", "z", "atom"}
        atom_data(atom) ==
            [c \in {"x", "y", "z", "atom"} \cup other_columns |->
                CASE c = "x" -> Num(atom.position[1])
                  [] c = "y" -> Num(atom.position[2])
                  [] c = "z" -> Num(atom.position[3])
                  [] c = "atom" -> Str(atom.symbol)
                  [] OTHER -> Str("")]
    IN  IF ~(Contains(columns, "x") /\ Contains(columns, "y") /\ Contains(columns, "z"))
        THEN Outcome("ValueError", Put(o1, "moleculeData", EmptyDict), data_output_file)
        ELSE IF data_output_file # None
        THEN Outcome("",
                 Put(o1, "moleculeData", _set_data_filename_(EmptyDict, data_output_file)),
                 writerows(data_output_file,
                           <<[i \in 1..Len(columns) |-> Str(columns[i])]>>
                           \o [a \in 1..Len(atoms) |-> row(atoms[a])]))
        ELSE Outcome("",
                 Put(o1, "moleculeData",
                     Put(EmptyDict, "data", [a \in 1..Len(atoms) |-> atom_data(atoms[a])])),
                 data_output_file)

ASEAtoms_convert_AnyFrames(data, output, properties, framed_properties, data_output_file) ==
    IF data.kind = "Atoms"
    THEN ASEAtoms__convert__(data, output, properties, data_output_file)
    ELSE Outcome("TypeError", output, data_output_file)

\* ASEAtomsToMolecularDataConverter.convert
ASEAtoms_convert(data, output, properties, framed_properties, data_output_file) ==
    IF framed_properties # None
    THEN Outcome("ValueError", output, data_output_file)
    ELSE IF data.kind = "Atoms"
         THEN ASEAtoms__convert__(data, output, properties, data_output_file)
         ELSE Outcome("TypeError", output, data_output_file)

---------------------------------------------------------------------------
(* converter.py: ASETrajectoryToMolecularDataConverter *)

\* ASETrajectoryToMolecularDataConverter.__convert__; data.frames is the
\* list of the trajectory's Atoms objects
ASETrajectory__convert__(data, output, properties, framed_properties, data_output_file) ==
    LET frames == data.frames
        o1 == _init_atoms_(output, frames[1].cell)
        o2 == Put(o1, "moleculeData", EmptyDict)
        columns == WithAtom(properties.columns)
        x_index == ListIndex(columns, "x")
        y_index == ListIndex(columns, "y")
        z_index == ListIndex(columns, "z")
        atom_index == ListIndex(properties.columns, "atom")
        frame_index == IF framed_properties # None
                       THEN ListIndex(columns, framed_properties.frame_column)
                       ELSE 1
        row(atom, i) ==
            LET r0 == [k \in 1..Len(columns) |-> Str("")]
                r1 == [r0 EXCEPT ![x_index] = Num(atom.position[1])]
                r2 == [r1 EXCEPT ![y_index] = Num(atom.position[2])]
                r3 == [r2 EXCEPT ![z_index] = Num(atom.position[3])]
                r4 == [r3 EXCEPT ![atom_index] = Str(atom.symbol)]
            IN  IF framed_properties # None
                THEN [r4 EXCEPT ![frame_index] = Num(i)]
                ELSE r4
        atom_data(atom, i) ==
            LET d == [x |-> Num(atom.position[1]),
                      y |-> Num(atom.position[2]),
                      z |-> Num(atom.position[3]),
                      atom |-> Str(atom.symbol)]
            IN  IF framed_properties # None
                THEN Put(d, framed_properties.frame_column, Num(i))
                ELSE d
    IN  IF Len(frames) = 0
        THEN Outcome("IndexError", output, data_output_file)
        ELSE IF ~(Contains(columns, "x") /\ Contains(columns, "y") /\ Contains(columns, "z"))
        THEN Outcome("ValueError", o2, data_output_file)
        ELSE IF ~Contains(properties.columns, "atom")
        THEN Outcome("ValueError", o2, data_output_file)
        ELSE IF framed_properties # None /\ ~Contains(columns, framed_properties.frame_column)
        THEN Outcome("ValueError", o2, data_output_file)
        ELSE IF data_output_file # None
        THEN Outcome("",
                 Put(o1, "moleculeData", _set_data_filename_(EmptyDict, data_output_file)),
                 writerows(data_output_file,
                     <<[k \in 1..Len(columns) |-> Str(columns[k])]>>
                     \o Concat([f \in 1..Len(frames) |->
                            [a \in 1..Len(frames[f].atoms) |->
                                row(frames[f].atoms[a], f - 1)]])))
        ELSE Outcome("",
                 Put(o1, "moleculeData",
                     Put(EmptyDict, "data",
                         Concat([f \in 1..Len(frames) |->
                            [a \in 1..Len(frames[f].atoms) |->
                                atom_data(frames[f].atoms[a], f - 1)]]))),
                 data_output_file)

\* ASETrajectoryToMolecularDataConverter.convert
ASETrajectory_convert(data, output, properties, framed_properties, data_output_file) ==
    IF data.kind = "TrajectoryReader"
    THEN ASETrajectory__convert__(data, output, properties, framed_properties,
                                  data_output_file)
    ELSE Outcome("TypeError", output, data_output_file)

---------------------------------------------------------------------------
(* converter.py: ArrayToMolecularDataConverter *)

\* the input rows a conversion gets through before a row or its species
\* label is missing (IndexError)
ArrayGoodRows(data, properties, extra_properties) ==
    LET ok(a) == /\ a <= Len(extra_properties.np_atoms.l)
                 /\ Len(data.rows[a]) >= Len(properties.columns)
        bad == {a \in 1..Len(data.rows) : ~ok(a)}
    IN  IF bad = {} THEN Len(data.rows)
        ELSE (CHOOSE a \in bad : \A b \in bad : a <= b) - 1

\* ArrayToMolecularDataConverter.__convert__; data.rows is the 2D array,
\* extra_properties holds np_atoms (None or a list) and cell (None or a Cell)
Array__convert__(data, output, properties, extra_properties, data_output_file) ==
    LET columns == properties.columns
        o1 == _init_atoms_(output, extra_properties.cell)
        n == ArrayGoodRows(data, properties, extra_properties)
        exc == IF n < Len(data.rows) THEN "IndexError" ELSE ""
        row(a) ==
            [k \in 1..(Len(columns) + 1) |->
                IF k <= Len(columns)
                THEN Num(data.rows[a][ListIndex(columns, columns[k])])
                ELSE Str(extra_properties.np_atoms.l[a])]
        atom_data(a) ==
            [c \in Elems(columns) \cup {"atom"} |->
                IF c = "atom"
                THEN Str(extra_properties.np_atoms.l[a])
                ELSE Num(data.rows[a][ListIndex(columns, c)])]
    IN  IF extra_properties.np_atoms = None
        THEN Outcome("TypeError", output, data_output_file)
        ELSE IF extra_properties.cell = None
        THEN Outcome("TypeError", output, data_output_file)
        ELSE IF data_output_file # None
        THEN Outcome(exc,
                 Put(o1, "moleculeData", _set_data_filename_(EmptyDict, data_output_file)),
                 writerows(data_output_file,
                     <<[k \in 1..Len(columns) |-> Str(columns[k])]>>
                     \o [a \in 1..n |-> row(a)]))
        ELSE Outcome(exc,
                 Put(o1, "moleculeData",
                     Put(EmptyDict, "data", [a \in 1..n |-> atom_data(a)])),
                 data_output_file)

Array_convert_BlockFirst(data, output, properties, extra_properties, data_output_file) ==
    IF data.kind = "ndarray"
    THEN Array__convert__(data, Put(output, "moleculeData", EmptyDict), properties,
                          extra_properties, data_output_file)
    ELSE Outcome("TypeError", output, data_output_file)

\* ArrayToMolecularDataConverter.convert
Array_convert(data, output, properties, extra_properties, data_output_file) ==
    IF data.kind = "ndarray"
    THEN Array__convert__(data, output, properties, extra_properties, data_output_file)
    ELSE Outcome("TypeError", output, data_output_file)

---------------------------------------------------------------------------
(* converter.py: ArrayToSpatiallyResolvedDataConverter *)

\* ArrayToSpatiallyResolvedDataConverter.convert; __convert__ is "pass"
ArrayToSpatiallyResolved_convert(data, output, data_output_file) ==
    IF data.kind = "ndarray"
    THEN Outcome("", output, data_output_file)
    ELSE Outcome("TypeError", output, data_output_file)

---------------------------------------------------------------------------
(* converter.py: FileToAnyDataConverter *)

\* FileToAnyDataConverter.__convert__; exists tells whether open(self.data)
\* finds the file
FileToAny__convert__(data, target_format, output, exists) ==
    LET node == IF target_format = "MOLECULAR_DATA" THEN "moleculeData"
                ELSE "spatiallyResolvedData"
    IN  IF target_format \notin {"MOLECULAR_DATA", "SPATIALLY_RESOLVED_DATA"}
        THEN [exc |-> "ValueError", output |-> output, handles |-> <<>>]
        ELSE IF ~exists
        THEN [exc |-> "FileNotFoundError", output |-> Put(output, node, EmptyDict),
              handles |-> <<>>]
        ELSE [exc |-> "",
              output |-> Put(output, node,
                             _set_data_filename_(EmptyDict, [name |-> data.path])),
              handles |-> <<Opened(data.path), Closed(data.path)>>]

\* FileToAnyDataConverter.convert
FileToAny_convert(data, target_format, output, data_output_file, exists) ==
    IF data.kind = "str"
    THEN LET r == FileToAny__convert__(data, target_format, output, exists)
         IN  [Outcome(r.exc, r.output, data_output_file) EXCEPT !.handles = r.handles]
    ELSE Outcome("TypeError", output, data_output_file)

---------------------------------------------------------------------------
(* converter.py: Converter *)

\* Converter.__get_data_format__: the DataFormat of the input, by its type
Converter__get_data_format__(data) ==
    CASE data.kind = "str" -> [exc |-> "", format |-> "FILE_DATA"]
      [] data.kind = "Atoms" -> [exc |-> "", format |-> "ATOMS_DATA"]
      [] data.kind = "TrajectoryReader" -> [exc |-> "", format |-> "TRAJECTORY_DATA"]
      [] data.kind = "ndarray" -> [exc |-> "", format |-> "ARRAY_DATA"]
      [] OTHER -> [exc |-> "ValueError", format |-> ""]

Converter_create_converter_AnyTarget(data, target_format) ==
    LET f == Converter__get_data_format__(data)
        made(class) == [exc |-> "",
                        converter |-> [class |-> class, data |-> data,
                                       target_format |-> target_format]]
    IN  IF f.exc # ""
        THEN [exc |-> f.exc, converter |-> None]
        ELSE CASE f.format = "TRAJECTORY_DATA" -> made("ASETrajectoryToMolecularDataConverter")
               [] f.format = "ATOMS_DATA" -> made("ASEAtomsToMolecularDataConverter")
               [] f.format = "ARRAY_DATA" ->
                     IF target_format = "SPATIALLY_RESOLVED_DATA"
                     THEN made("ArrayToSpatiallyResolvedDataConverter")
                     ELSE made("ArrayToMolecularDataConverter")
               [] f.format = "FILE_DATA" -> made("FileToAnyDataConverter")

\* Converter.create_converter: the converter class for the input and target
Converter_create_converter(data, target_format) ==
    LET f == Converter__get_data_format__(data)
        source_format == f.format
        made(class) == [exc |-> "",
                        converter |-> [class |-> class, data |-> data,
                                       target_format |-> target_format]]
    IN  IF f.exc # ""
        THEN [exc |-> f.exc, converter |-> None]
        ELSE IF source_format = "TRAJECTORY_DATA" /\ target_format = "MOLECULAR_DATA"
        THEN made("ASETrajectoryToMolecularDataConverter")
        ELSE IF source_format = "ATOMS_DATA" /\ target_format = "MOLECULAR_DATA"
        THEN made("ASEAtomsToMolecularDataConverter")
        ELSE IF source_format = "ARRAY_DATA" /\ target_format = "MOLECULAR_DATA"
        THEN made("ArrayToMolecularDataConverter")
        ELSE IF source_format = "ARRAY_DATA" /\ target_format = "SPATIALLY_RESOLVED_DATA"
        THEN made("ArrayToSpatiallyResolvedDataConverter")
        ELSE IF source_format = "FILE_DATA"
        THEN made("FileToAnyDataConverter")
        ELSE [exc |-> "TypeError", converter |-> None]

\* converter.convert(...), dispatched on the converter's class
Converter_convert(converter, output, properties, framed_properties, extra_properties, data_output_file, exists) ==
    CASE converter.class = "ASETrajectoryToMolecularDataConverter" ->
            ASETrajectory_convert(converter.data, output, properties,
                                  framed_properties, data_output_file)
      [] converter.class = "ASEAtomsToMolecularDataConverter" ->
            ASEAtoms_convert(converter.data, output, properties,
                             framed_properties, data_output_file)
      [] converter.class = "ArrayToMolecularDataConverter" ->
            Array_convert(converter.data, output, properties,
                          extra_properties, data_output_file)
      [] converter.class = "ArrayToSpatiallyResolvedDataConverter" ->
            ArrayToSpatiallyResolved_convert(converter.data, output, data_output_file)
      [] converter.class = "FileToAnyDataConverter" ->
            FileToAny_convert(converter.data, converter.target_format, output,
                              data_output_file, exists)

---------------------------------------------------------------------------
(* The file system *)

\* whether a file exists at path
Exists(files, path) == path \in DOMAIN files

\* open(path, 'w') ... close: the file at path now holds lines
WriteLines(files, path, lines) == Put(files, path, [lines |-> lines])

\* JSON text, as the value it denotes: null, a string, a number (written
\* without a fraction for an int, as the shortest decimal of its value for a
\* float), an array or an object
JsonNull == [json |-> "null"]

JsonString(s) == [json |-> "string", s |-> s]

JsonArray(items) == [json |-> "array", items |-> items]

JsonObject(members) == [json |-> "object", members |-> members]

RECURSIVE Gcd(_, _)
Gcd(a, b) == IF b = 0 THEN a ELSE Gcd(b, a % b)

\* json.dump of a number: an int is written as it is, a float (a quotient
\* here) by its value
JsonNumber(v) ==
    IF "n" \in DOMAIN v
    THEN [json |-> "number", int |-> TRUE, num |-> v.n, den |-> 1]
    ELSE LET g == Gcd(IF v.num < 0 THEN -v.num ELSE v.num, v.den)
         IN  [json |-> "number", int |-> FALSE, num |-> v.num \div g, den |-> v.den \div g]

\* json.dump of a field of a data row: None, a str or a number
JsonScalar(v) ==
    IF "py" \in DOMAIN v THEN JsonNull
    ELSE IF "s" \in DOMAIN v THEN JsonString(v.s)
    ELSE JsonNumber(v)

\* json.dump of a dict of numbers (systemDimension, systemLatticeVectors,
\* numGridPoints, gridSpacing)
JsonOfNumbers(block) == JsonObject([k \in DOMAIN block |-> JsonNumber(block[k])])

\* json.dump of a dict of strings
JsonOfNames(block) == JsonObject([k \in DOMAIN block |-> JsonString(block[k])])

\* json.dump of a list of strings
JsonOfStrings(l) == JsonArray([i \in 1..Len(l) |-> JsonString(l[i])])

\* json.dump of a moleculeData or spatiallyResolvedData block
JsonOfData(block) ==
    JsonObject([k \in DOMAIN block |->
        CASE k = "dataFilename" -> JsonString(block[k])
          [] k = "data" ->
                JsonArray([i \in 1..Len(block[k]) |->
                    JsonObject([c \in DOMAIN block[k][i] |-> JsonScalar(block[k][i][c])])])
          [] OTHER -> JsonOfNumbers(block[k])])

\* json.dump of a view's configuration
JsonOfView(view) ==
    JsonObject([k \in DOMAIN view |->
        CASE k \in {"viewType", "moleculeName"} -> JsonString(view[k])
          [] k \in {"systemDimension", "systemLatticeVectors"} -> JsonOfNumbers(view[k])
          [] k \in {"moleculeData", "spatiallyResolvedData"} -> JsonOfData(view[k])
          [] OTHER -> JsonOfNames(view[k])])

\* json.dump of a plotSetup
JsonOfPlotSetup(setup) ==
    JsonObject([k \in DOMAIN setup |->
        CASE k \in {"moleculePropertyList", "spatiallyResolvedPropertyList"} ->
                JsonOfStrings(setup[k])
          [] k \in {"densityCutoffLow", "densityCutoffUp"} -> JsonNumber(setup[k])
          [] OTHER -> JsonString(setup[k])])

\* json.dump of a document
JsonOfDocument(configuration) ==
    JsonObject([k \in {"views", "plotSetup"} |->
        IF k = "views"
        THEN JsonArray([i \in 1..Len(configuration.views) |->
                           JsonOfView(configuration.views[i])])
        ELSE JsonOfPlotSetup(configuration.plotSetup)])

\* json.load of a number: an int where no fraction is written, else a float
PyOfNumber(j) == IF j.int THEN Num(j.num) ELSE [num |-> j.num, den |-> j.den]

\* json.load of a field of a data row
PyOfScalar(j) ==
    CASE j.json = "null" -> None
      [] j.json = "string" -> Str(j.s)
      [] OTHER -> PyOfNumber(j)

\* json.load of an object of numbers
PyOfNumbers(j) == [k \in DOMAIN j.members |-> PyOfNumber(j.members[k])]

\* json.load of an object of strings
PyOfNames(j) == [k \in DOMAIN j.members |-> j.members[k].s]

\* json.load of an array of strings
PyOfStrings(j) == [i \in 1..Len(j.items) |-> j.items[i].s]

\* json.load of a moleculeData or spatiallyResolvedData block
PyOfData(j) ==
    [k \in DOMAIN j.members |->
        CASE k = "dataFilename" -> j.members[k].s
          [] k = "data" ->
                [i \in 1..Len(j.members[k].items) |->
                    [c \in DOMAIN j.members[k].items[i].members |->
                        PyOfScalar(j.members[k].items[i].members[c])]]
          [] OTHER -> PyOfNumbers(j.members[k])]

\* json.load of a view's configuration
PyOfView(j) ==
    [k \in DOMAIN j.members |->
        CASE k \in {"viewType", "moleculeName"} -> j.members[k].s
          [] k \in {"systemDimension", "systemLatticeVectors"} -> PyOfNumbers(j.members[k])
          [] k \in {"moleculeData", "spatiallyResolvedData"} -> PyOfData(j.members[k])
          [] OTHER -> PyOfNames(j.members[k])]

\* json.load of a plotSetup
PyOfPlotSetup(j) ==
    [k \in DOMAIN j.members |->
        CASE k \in {"moleculePropertyList", "spatiallyResolvedPropertyList"} ->
                PyOfStrings(j.members[k])
          [] k \in {"densityCutoffLow", "densityCutoffUp"} -> PyOfNumber(j.members[k])
          [] OTHER -> j.members[k].s]

\* json.load of a document
PyOfDocument(j) ==
    [views |-> [i \in 1..Len(j.members["views"].items) |->
                   PyOfView(j.members["views"].items[i])],
     plotSetup |-> PyOfPlotSetup(j.members["plotSetup"])]

\* json.dump(configuration, fp): the file holds the document's JSON text
json_dump(files, path, configuration) ==
    Put(files, path, [json |-> JsonOfDocument(configuration)])

json_load_Reversed(files, path) ==
    IF "json" \in DOMAIN files[path]
    THEN [exc |-> "",
          configuration |->
              [views |-> [i \in 1..Len(files[path].json.members["views"].items) |->
                             PyOfView(files[path].json.members["views"].items[
                                 Len(files[path].json.members["views"].items) + 1 - i])],
               plotSetup |-> PyOfPlotSetup(files[path].json.members["plotSetup"])]]
    ELSE [exc |-> "JSONDecodeError", configuration |-> EmptyDict]

\* json.load(file): the document a JSON file holds; a file that holds no
\* JSON text raises json.JSONDecodeError
json_load(files, path) ==
    IF "json" \in DOMAIN files[path]
    THEN [exc |-> "", configuration |-> PyOfDocument(files[path].json)]
    ELSE [exc |-> "JSONDecodeError", configuration |-> EmptyDict]

---------------------------------------------------------------------------
(* view.py: MolecularData and SpatiallyResolvedData *)

\* MolecularData.__init__
MolecularData_init(data, np_atoms, ase_cell) ==
    [class |-> "MolecularData", data |-> data, np_atoms |-> np_atoms, ase_cell |-> ase_cell]

\* SpatiallyResolvedData.__init__
SpatiallyResolvedData_init(data, grid_points, grid_spacing, np_atoms, ase_cell) ==
    [class |-> "SpatiallyResolvedData", data |-> data,
     grid_points |-> grid_points, grid_spacing |-> grid_spacing,
     np_atoms |-> np_atoms, ase_cell |-> ase_cell]

RunConverter_Exclusive(self, target_format, configuration, properties, framed_properties, data_output_file, files) ==
    LET extra_properties == [np_atoms |-> self.np_atoms, cell |-> self.ase_cell]
        c == Converter_create_converter(self.data, target_format)
        exists == self.data.kind = "str" /\ Exists(files, self.data.path)
    IN  IF c.exc # ""
        THEN [exc |-> c.exc, configuration |-> configuration, files |-> files,
              handles |-> <<>>]
        ELSE IF data_output_file # None /\ Exists(files, data_output_file.s)
        THEN [exc |-> "FileExistsError", configuration |-> configuration,
              files |-> files, handles |-> <<>>]
        ELSE IF data_output_file # None
        THEN CHOOSE out \in
                {[exc |-> r.exc, configuration |-> r.output,
                  files |-> WriteLines(files, data_output_file.s, r.file.lines),
                  handles |-> <<Opened(data_output_file.s)>> \o r.handles
                              \o <<Closed(data_output_file.s)>>] :
                 r \in {Converter_convert(c.converter, configuration, properties,
                            framed_properties, extra_properties,
                            FileHandle(data_output_file.s), exists)}} : TRUE
        ELSE CHOOSE out \in
                {[exc |-> r.exc, configuration |-> r.output, files |-> files,
                  handles |-> r.handles] :
                 r \in {Converter_convert(c.converter, configuration, properties,
                            framed_properties, extra_properties, None, exists)}} : TRUE

\* the part of add_configuration the two data classes share: create the
\* converter and run it, inside "with open(data_output_file, 'w')" when an
\* output file is given.  The file is created when opened and holds what the
\* conversion wrote when the with-block is left, normally or by an exception.
RunConverter(self, target_format, configuration, properties, framed_properties, data_output_file, files) ==
    LET extra_properties == [np_atoms |-> self.np_atoms, cell |-> self.ase_cell]
        c == Converter_create_converter(self.data, target_format)
        exists == self.data.kind = "str" /\ Exists(files, self.data.path)
    IN  IF c.exc # ""
        THEN [exc |-> c.exc, configuration |-> configuration, files |-> files,
              handles |-> <<>>]
        ELSE IF data_output_file # None
        THEN CHOOSE out \in
                {[exc |-> r.exc, configuration |-> r.output,
                  files |-> WriteLines(files, data_output_file.s, r.file.lines),
                  handles |-> <<Opened(data_output_file.s)>> \o r.handles
                              \o <<Closed(data_output_file.s)>>] :
                 r \in {Converter_convert(c.converter, configuration, properties,
                            framed_properties, extra_properties,
                            FileHandle(data_output_file.s), exists)}} : TRUE
        ELSE CHOOSE out \in
                {[exc |-> r.exc, configuration |-> r.output, files |-> files,
                  handles |-> r.handles] :
                 r \in {Converter_convert(c.converter, configuration, properties,
                            framed_properties, extra_properties, None, exists)}} : TRUE

\* MolecularData.add_configuration
MolecularData_add_configuration(self, configuration, properties, framed_properties, data_output_file, files) ==
    RunConverter(self, "MOLECULAR_DATA", configuration, properties,
                 framed_properties, data_output_file, files)

\* SpatiallyResolvedData.add_configuration
SpatiallyResolvedData_add_configuration(self, configuration, properties, framed_properties, data_output_file, files) ==
    LET c0 == EmptyDict
        c1 == IF self.grid_points # None
              THEN Put(c0, "numGridPoints", [x |-> Num(self.grid_points.l[1]),
                                             y |-> Num(self.grid_points.l[2]),
                                             z |-> Num(self.grid_points.l[3])])
              ELSE c0
        c2 == IF self.grid_spacing # None
              THEN Put(c1, "gridSpacing", [x |-> Num(self.grid_spacing.l[1]),
                                           y |-> Num(self.grid_spacing.l[2]),
                                           z |-> Num(self.grid_spacing.l[3])])
              ELSE c1
    IN  CHOOSE out \in
            {IF r.exc # ""
             THEN r
             ELSE [exc |-> "",
                   configuration |-> Put(r.configuration, "spatiallyResolvedData", c2),
                   files |-> r.files, handles |-> r.handles] :
             r \in {RunConverter(self, "SPATIALLY_RESOLVED_DATA", configuration,
                        properties, framed_properties, data_output_file, files)}} : TRUE

---------------------------------------------------------------------------
(* view.py: ThreeDView and TwoDHeatmap *)

\* ThreeDView.__init__; system_dimensions and system_lattice_vectors are
\* None or lists
ThreeDView_init(system_name, system_dimensions, system_lattice_vectors) ==
    [view_type |-> "3DView",
     system_name |-> system_name,
     system_dimensions |->
        IF system_dimensions # None
        THEN [x |-> Num(system_dimensions.l[1]), y |-> Num(system_dimensions.l[2]),
              z |-> Num(system_dimensions.l[3])]
        ELSE None,
     system_lattice_vectors |->
        IF system_lattice_vectors # None
        THEN LET vectors == system_lattice_vectors.l
             IN  [u11 |-> Num(vectors[1][1]), u12 |-> Num(vectors[1][2]),
                  u13 |-> Num(vectors[1][3]),
                  u21 |-> Num(vectors[2][1]), u22 |-> Num(vectors[2][2]),
                  u23 |-> Num(vectors[2][3]),
                  u31 |-> Num(vectors[3][1]), u32 |-> Num(vectors[3][2]),
                  u33 |-> Num(vectors[3][3])]
        ELSE None,
     spatially_resolved_data |-> None,
     molecular_data |-> None,
     spatially_resolved_output_file |-> None,
     molecular_output_file |-> None]

ThreeDView_add_data_AnyOutput(self, data, output_data_file) ==
    IF data.class = "SpatiallyResolvedData"
    THEN [exc |-> "",
          self |-> [self EXCEPT !.spatially_resolved_data = data,
                                !.spatially_resolved_output_file = output_data_file]]
    ELSE IF data.class = "MolecularData"
    THEN [exc |-> "",
          self |-> [self EXCEPT !.molecular_data = data,
                                !.molecular_output_file = output_data_file]]
    ELSE [exc |-> "", self |-> self]

ThreeDView_add_data_FirstOutput(self, data, output_data_file) ==
    IF data.class \in {"SpatiallyResolvedData", "MolecularData"}
    THEN IF data.data.kind = "str" /\ output_data_file # None
         THEN [exc |-> "ValueError", self |-> self]
         ELSE IF data.class = "SpatiallyResolvedData"
         THEN [exc |-> "",
               self |-> [self EXCEPT !.spatially_resolved_data = data,
                                     !.spatially_resolved_output_file =
                                         IF @ = None THEN output_data_file ELSE @]]
         ELSE [exc |-> "",
               self |-> [self EXCEPT !.molecular_data = data,
                                     !.molecular_output_file =
                                         IF @ = None THEN output_data_file ELSE @]]
    ELSE [exc |-> "", self |-> self]

\* ThreeDView.add_data; data is a MolecularData, a SpatiallyResolvedData or
\* an object of another class, output_data_file is None or a string
ThreeDView_add_data(self, data, output_data_file) ==
    IF data.class \in {"SpatiallyResolvedData", "MolecularData"}
    THEN IF data.data.kind = "str" /\ output_data_file # None
         THEN [exc |-> "ValueError", self |-> self]
         ELSE IF data.class = "SpatiallyResolvedData"
         THEN [exc |-> "",
               self |-> [self EXCEPT !.spatially_resolved_data = data,
                                     !.spatially_resolved_output_file = output_data_file]]
         ELSE [exc |-> "",
               self |-> [self EXCEPT !.molecular_data = data,
                                     !.molecular_output_file = output_data_file]]
    ELSE [exc |-> "", self |-> self]

\* the default system dimensions and lattice vectors, at the end of
\* ThreeDView.get_configuration
ThreeDView_defaults(configuration) ==
    LET c5 == IF "systemDimension" \notin DOMAIN configuration
              THEN Put(configuration, "systemDimension",
                       [x |-> Num(10), y |-> Num(10), z |-> Num(10)])
              ELSE configuration
    IN  IF "systemLatticeVectors" \notin DOMAIN c5
        THEN Put(c5, "systemLatticeVectors",
                 [u11 |-> Num(1), u12 |-> Num(0), u13 |-> Num(0),
                  u21 |-> Num(0), u22 |-> Num(1), u23 |-> Num(0),
                  u31 |-> Num(0), u32 |-> Num(0), u33 |-> Num(1)])
        ELSE c5

\* ThreeDView.get_configuration
ThreeDView_get_configuration(self, spatially_resolved_properties, molecular_properties, framed_properties, files) ==
    LET c0 == [viewType |-> self.view_type, moleculeName |-> self.system_name]
        c1 == IF self.system_dimensions # None
              THEN Put(c0, "systemDimension", self.system_dimensions)
              ELSE c0
        c2 == IF self.system_lattice_vectors # None
              THEN Put(c1, "systemLatticeVectors", self.system_lattice_vectors)
              ELSE c1
        \* the spatially resolved data, when the plot declares its properties
        spatial ==
            IF spatially_resolved_properties # None
            THEN IF self.spatially_resolved_data = None
                 THEN [exc |-> "AttributeError", configuration |-> c2, files |-> files,
                       handles |-> <<>>]
                 ELSE SpatiallyResolvedData_add_configuration(
                          self.spatially_resolved_data, c2,
                          spatially_resolved_properties, framed_properties,
                          self.spatially_resolved_output_file, files)
            ELSE [exc |-> "", configuration |-> c2, files |-> files, handles |-> <<>>]
        \* the molecular data, when the plot declares its properties
        molecular(r3) ==
            IF molecular_properties # None
            THEN IF self.molecular_data = None
                 THEN [exc |-> "AttributeError", configuration |-> r3.configuration,
                       files |-> r3.files, handles |-> r3.handles]
                 ELSE CHOOSE out \in
                        {[m EXCEPT !.handles = r3.handles \o @] :
                         m \in {MolecularData_add_configuration(
                                    self.molecular_data, r3.configuration,
                                    molecular_properties, framed_properties,
                                    self.molecular_output_file, r3.files)}} : TRUE
            ELSE r3
    IN  CHOOSE out \in
            {IF r3.exc # ""
             THEN r3
             ELSE CHOOSE out4 \in
                    {IF r4.exc # ""
                     THEN r4
                     ELSE [exc |-> "",
                           configuration |-> ThreeDView_defaults(r4.configuration),
                           files |-> r4.files, handles |-> r4.handles] :
                     r4 \in {molecular(r3)}} : TRUE :
             r3 \in {spatial}} : TRUE

\* TwoDHeatmap.__init__
TwoDHeatmap_init(plot_x, plot_y, plot_x_transform, plot_y_transform) ==
    [view_type |-> "2DHeatmap", plot_x |-> plot_x, plot_y |-> plot_y,
     plot_x_transform |-> plot_x_transform, plot_y_transform |-> plot_y_transform]

\* TwoDHeatmap.get_configuration
TwoDHeatmap_get_configuration(self, files) ==
    [exc |-> "",
     configuration |->
        [view |-> [viewType |-> self.view_type,
                   plotX |-> self.plot_x, plotY |-> self.plot_y,
                   plotXTransform |-> self.plot_x_transform,
                   plotYTransform |-> self.plot_y_transform],
         plot_setup |-> EmptyDict],
     files |-> files, handles |-> <<>>]

\* view.get_configuration(...), dispatched on the view's class
View_get_configuration(self, spatially_resolved_properties, molecular_properties, framed_properties, files) ==
    IF self.view_type = "3DView"
    THEN ThreeDView_get_configuration(self, spatially_resolved_properties,
                                      molecular_properties, framed_properties, files)
    ELSE TwoDHeatmap_get_configuration(self, files)

---------------------------------------------------------------------------
(* plot.py: Plot *)

Plot_init_NoModeCheck(spatially_resolved_properties, molecular_properties, framed_properties, configuration_file) ==
    [exc |-> "",
     self |-> [views |-> <<>>,
               spatially_resolved_properties |-> spatially_resolved_properties,
               molecular_properties |-> molecular_properties,
               framed_properties |-> framed_properties,
               input_configuration_file |-> configuration_file]]

Plot_init_FrameInMolecularOnly(spatially_resolved_properties, molecular_properties, framed_properties, configuration_file) ==
    LET self == [views |-> <<>>,
                 spatially_resolved_properties |-> spatially_resolved_properties,
                 molecular_properties |-> molecular_properties,
                 framed_properties |-> framed_properties,
                 input_configuration_file |-> configuration_file]
        raised == [exc |-> "ValueError", self |-> None]
    IN  IF configuration_file = None
        THEN IF spatially_resolved_properties = None /\ molecular_properties = None
             THEN raised
             ELSE IF /\ framed_properties # None
                     /\ molecular_properties # None
                     /\ ~Contains(molecular_properties.columns,
                                  framed_properties.frame_column)
                  THEN raised
                  ELSE [exc |-> "", self |-> self]
        ELSE IF \/ spatially_resolved_properties # None
                \/ molecular_properties # None
                \/ framed_properties # None
             THEN raised
             ELSE [exc |-> "", self |-> self]

\* Plot.__init__; each argument is None or the object passed.  The field
\* views is the private list __views__; it holds references to view objects.
Plot_init(spatially_resolved_properties, molecular_properties, framed_properties, configuration_file) ==
    LET self == [views |-> <<>>,
                 spatially_resolved_properties |-> spatially_resolved_properties,
                 molecular_properties |-> molecular_properties,
                 framed_properties |-> framed_properties,
                 input_configuration_file |-> configuration_file]
        raised == [exc |-> "ValueError", self |-> None]
    IN  IF configuration_file = None
        THEN IF spatially_resolved_properties = None /\ molecular_properties = None
             THEN raised
             ELSE IF framed_properties # None
                  THEN IF /\ spatially_resolved_properties # None
                          /\ ~Contains(spatially_resolved_properties.columns,
                                       framed_properties.frame_column)
                       THEN raised
                       ELSE IF /\ molecular_properties # None
                               /\ ~Contains(molecular_properties.columns,
                                            framed_properties.frame_column)
                            THEN raised
                            ELSE [exc |-> "", self |-> self]
                  ELSE [exc |-> "", self |-> self]
        ELSE IF \/ spatially_resolved_properties # None
                \/ molecular_properties # None
                \/ framed_properties # None
             THEN raised
             ELSE [exc |-> "", self |-> self]

Plot_add_view_NoGuard(self, plot_view) ==
    [exc |-> "", self |-> [self EXCEPT !.views = Append(@, plot_view)]]

\* Plot.add_view; plot_view is a reference to a view object
Plot_add_view(self, plot_view) ==
    IF self.input_configuration_file # None
    THEN [exc |-> "ValueError", self |-> self]
    ELSE [exc |-> "", self |-> [self EXCEPT !.views = Append(@, plot_view)]]

Plot_remove_view_Latest(self, plot_view) ==
    IF ~Contains(self.views, plot_view)
    THEN [exc |-> "ValueError", self |-> self]
    ELSE LET i == CHOOSE k \in 1..Len(self.views) :
                      /\ self.views[k] = plot_view
                      /\ \A j \in (k + 1)..Len(self.views) : self.views[j] # plot_view
         IN  [exc |-> "",
              self |-> [self EXCEPT !.views =
                            SubSeq(@, 1, i - 1) \o SubSeq(@, i + 1, Len(@))]]

\* Plot.remove_view; list.remove raises ValueError when the view is not held
Plot_remove_view(self, plot_view) ==
    IF ~Contains(self.views, plot_view)
    THEN [exc |-> "ValueError", self |-> self]
    ELSE [exc |-> "", self |-> [self EXCEPT !.views = ListRemove(@, plot_view)]]

Plot__get_plot_setup__FirstOnly(self) ==
    IF self.spatially_resolved_properties # None
    THEN SpatiallyResolvedDataProperties_add_plot_setup(
             self.spatially_resolved_properties, EmptyDict)
    ELSE IF self.molecular_properties # None
    THEN MolecularDataProperties_add_plot_setup(self.molecular_properties, EmptyDict)
    ELSE IF self.framed_properties # None
    THEN FramedDataProperties_add_plot_setup(self.framed_properties, EmptyDict)
    ELSE EmptyDict

\* Plot.__get_plot_setup__
Plot__get_plot_setup__(self) ==
    LET c0 == EmptyDict
        c1 == IF self.spatially_resolved_properties # None
              THEN SpatiallyResolvedDataProperties_add_plot_setup(
                       self.spatially_resolved_properties, c0)
              ELSE c0
        c2 == IF self.molecular_properties # None
              THEN MolecularDataProperties_add_plot_setup(self.molecular_properties, c1)
              ELSE c1
    IN  IF self.framed_properties # None
        THEN FramedDataProperties_add_plot_setup(self.framed_properties, c2)
        ELSE c2

RECURSIVE BuildViews(_, _, _, _, _)
\* the loop of Plot.__create_configuration__ over the views still to convert:
\* configs is configuration['views'] so far, heap maps a reference to its view
BuildViews(self, heap, todo, configs, files) ==
    IF todo = <<>>
    THEN [exc |-> "", views |-> configs, files |-> files, handles |-> <<>>]
    ELSE CHOOSE out \in
            {IF r.exc # ""
             THEN [exc |-> r.exc, views |-> configs, files |-> r.files,
                   handles |-> r.handles]
             ELSE CHOOSE rest \in
                    {[b EXCEPT !.handles = r.handles \o @] :
                     b \in {BuildViews(self, heap, Tail(todo),
                                Append(configs, r.configuration), r.files)}} : TRUE :
             r \in {View_get_configuration(heap[Head(todo)],
                        self.spatially_resolved_properties,
                        self.molecular_properties,
                        self.framed_properties, files)}} : TRUE

Plot__create_configuration__NoEmptyCheck(self, heap, files) ==
    IF self.input_configuration_file # None /\ self.input_configuration_file.s # ""
    THEN IF ~Exists(files, self.input_configuration_file.s)
         THEN [exc |-> "FileNotFoundError", configuration |-> EmptyDict, files |-> files,
               handles |-> <<>>]
         ELSE LET l == json_load(files, self.input_configuration_file.s)
              IN  [exc |-> l.exc, configuration |-> l.configuration, files |-> files,
                   handles |-> <<Opened(self.input_configuration_file.s),
                                 Closed(self.input_configuration_file.s)>>]
    ELSE CHOOSE out \in
            {IF b.exc # ""
             THEN [exc |-> b.exc, configuration |-> EmptyDict, files |-> b.files,
                   handles |-> b.handles]
             ELSE [exc |-> "",
                   configuration |-> [views |-> b.views,
                                      plotSetup |-> Plot__get_plot_setup__(self)],
                   files |-> b.files, handles |-> b.handles] :
             b \in {BuildViews(self, heap, self.views, <<>>, files)}} : TRUE

\* Plot.__create_configuration__
Plot__create_configuration__(self, heap, files) ==
    IF self.input_configuration_file # None /\ self.input_configuration_file.s # ""
    THEN IF ~Exists(files, self.input_configuration_file.s)
         THEN [exc |-> "FileNotFoundError", configuration |-> EmptyDict, files |-> files,
               handles |-> <<>>]
         ELSE LET l == json_load(files, self.input_configuration_file.s)
              IN  [exc |-> l.exc, configuration |-> l.configuration, files |-> files,
                   handles |-> <<Opened(self.input_configuration_file.s),
                                 Closed(self.input_configuration_file.s)>>]
    ELSE IF Len(self.views) = 0
    THEN [exc |-> "ValueError", configuration |-> EmptyDict, files |-> files,
          handles |-> <<>>]
    ELSE CHOOSE out \in
            {IF b.exc # ""
             THEN [exc |-> b.exc, configuration |-> EmptyDict, files |-> b.files,
                   handles |-> b.handles]
             ELSE [exc |-> "",
                   configuration |-> [views |-> b.views,
                                      plotSetup |-> Plot__get_plot_setup__(self)],
                   files |-> b.files, handles |-> b.handles] :
             b \in {BuildViews(self, heap, self.views, <<>>, files)}} : TRUE

\* load_browser: start the render shell, with the document as the
\* configuration of its load handler; the value is the list of the documents
\* the shell was started with
load_browser(configuration) == <<configuration>>

Plot_show_ShellFirst(self, heap, files) ==
    CHOOSE out \in
        {[exc |-> c.exc, configuration |-> c.configuration, files |-> c.files,
          rendered |-> TRUE, loaded |-> load_browser(c.configuration),
          handles |-> c.handles] :
         c \in {Plot__create_configuration__(self, heap, files)}} : TRUE

\* Plot.show: build the document and hand it to load_browser
Plot_show(self, heap, files) ==
    CHOOSE out \in
        {[exc |-> c.exc, configuration |-> c.configuration, files |-> c.files,
          rendered |-> c.exc = "",
          loaded |-> IF c.exc = "" THEN load_browser(c.configuration) ELSE <<>>,
          handles |-> c.handles] :
         c \in {Plot__create_configuration__(self, heap, files)}} : TRUE

\* Plot.save_configuration: build the document, then open the output file
\* and write the document to it
Plot_save_configuration(self, output_json_file, heap, files) ==
    CHOOSE out \in
        {IF c.exc # ""
         THEN [exc |-> c.exc, configuration |-> c.configuration, files |-> c.files,
               rendered |-> FALSE, loaded |-> <<>>, handles |-> c.handles]
         ELSE [exc |-> "", configuration |-> c.configuration,
               files |-> json_dump(c.files, output_json_file, c.configuration),
               rendered |-> FALSE, loaded |-> <<>>,
               handles |-> c.handles \o <<Opened(output_json_file),
                                           Closed(output_json_file)>>] :
         c \in {Plot__create_configuration__(self, heap, files)}} : TRUE

---------------------------------------------------------------------------
(* Inputs: the caller's data *)

\* the lattice 2 * identity
Lattice2 == Cell(<<<<2, 0, 0>>, <<0, 2, 0>>, <<0, 0, 2>>>>)

\* atom a of frame f of the model's molecule: its coordinates differ from
\* each other, from atom to atom and from frame to frame
AtomAt(f, a) ==
    [position |-> <<a + 10 * f, 100 + a + 10 * f, 200 + a + 10 * f>>,
     symbol |-> IF a % 2 = 1 THEN "Fe" ELSE "Cu"]

\* an ase Atoms object of n atoms (frame f of the molecule)
Snapshot(f, n) ==
    [kind |-> "Atoms", atoms |-> [a \in 1..n |-> AtomAt(f, a)], cell |-> Lattice2]

\* an ase TrajectoryReader whose frame i (from 0) holds counts[i + 1] atoms
Trajectory(counts) ==
    [kind |-> "TrajectoryReader",
     frames |-> [f \in 1..Len(counts) |-> Snapshot(f - 1, counts[f])]]

\* a numpy array of n rows and width columns; the value in row a (from 1),
\* column k (from 1) is 10 * a + k
Array(n, width) ==
    [kind |-> "ndarray", rows |-> [a \in 1..n |-> [k \in 1..width |-> 10 * a + k]]]

\* a file path
Path(p) == [kind |-> "str", path |-> p]

\* a list argument
List(l) == [l |-> l]

\* the species labels of the first n atoms of the molecule
Species(n) == [a \in 1..n |-> AtomAt(0, a).symbol]

\* the files present when the session starts: a pre-built configuration
\* document and a data file
InitFiles ==
    [p \in {"conf.json", "density.csv"} |->
        IF p = "conf.json"
        THEN [json |-> JsonOfDocument([views |-> <<>>, plotSetup |-> EmptyDict])]
        ELSE [lines |-> <<<<"x", "y", "z", "rho">>>>]]

---------------------------------------------------------------------------
(* Spec: a session with one Plot *)

\* the view objects of the session, by reference: a 3D view holding a
\* snapshot, to be written to data.csv, and the density file; and a heatmap
Heap ==
    [r \in {"v1", "v2"} |->
        IF r = "v1"
        THEN ThreeDView_add_data(
                 ThreeDView_add_data(ThreeDView_init("Cu", None, None),
                     MolecularData_init(Snapshot(0, 2), None, None),
                     Str("data.csv")).self,
                 SpatiallyResolvedData_init(Path("density.csv"), List(<<10, 10, 10>>),
                                            None, None, None),
                 None).self
        ELSE TwoDHeatmap_init("x", "y", "linear", "log10")]

ViewRefs == DOMAIN Heap

\* the schemas the session may pass to Plot
MolecularChoices ==
    {None,
     MolecularDataProperties_init(List(<<"x", "y", "z", "atom", "frame">>), <<>>).self,
     MolecularDataProperties_init(List(<<"x", "y", "z">>), <<>>).self}

SpatiallyResolvedChoices ==
    {None,
     SpatiallyResolvedDataProperties_init(List(<<"x", "y", "z", "rho">>), "rho",
                                          Num(0), Num(1), <<>>).self,
     SpatiallyResolvedDataProperties_init(List(<<"frame", "x", "y", "z", "rho">>), "rho",
                                          Num(5), Num(1), <<>>).self}

FramedChoices == {None, FramedDataProperties_init("frame")}

ConfigurationFileChoices == {None, Str(""), Str("conf.json"), Str("out.json")}

Init ==
    /\ plot = None
    /\ fs = InitFiles
    /\ call = [op |-> "start"]
    /\ result = [exc |-> ""]
    /\ process = import_electrolens

\* plot = Plot(...)
NewPlot ==
    /\ plot = None
    /\ \E srp \in SpatiallyResolvedChoices, mp \in MolecularChoices,
          fp \in FramedChoices, cf \in ConfigurationFileChoices :
          \E r \in {Plot_init(srp, mp, fp, cf)} :
              /\ plot' = r.self
              /\ call' = [op |-> "Plot", spatially_resolved_properties |-> srp,
                          molecular_properties |-> mp, framed_properties |-> fp,
                          configuration_file |-> cf]
              /\ result' = [exc |-> r.exc]
    /\ UNCHANGED <<fs, process>>

\* plot.add_view(view)
AddView ==
    /\ plot # None
    /\ \E v \in ViewRefs :
          \E r \in {Plot_add_view(plot, v)} :
              /\ Len(plot.views) < MaxViews
              /\ plot' = r.self
              /\ call' = [op |-> "add_view", plot_view |-> v]
              /\ result' = [exc |-> r.exc]
    /\ UNCHANGED <<fs, process>>

\* plot.remove_view(view)
RemoveView ==
    /\ plot # None
    /\ \E v \in ViewRefs :
          \E r \in {Plot_remove_view(plot, v)} :
              /\ plot' = r.self
              /\ call' = [op |-> "remove_view", plot_view |-> v]
              /\ result' = [exc |-> r.exc]
    /\ UNCHANGED <<fs, process>>

\* plot.show()
Show ==
    /\ plot # None
    /\ \E r \in {Plot_show(plot, Heap, fs)} :
           /\ fs' = r.files
           /\ call' = [op |-> "show"]
           /\ result' = [exc |-> r.exc, configuration |-> r.configuration,
                         rendered |-> r.rendered, loaded |-> r.loaded,
                         handles |-> r.handles]
    /\ UNCHANGED <<plot, process>>

\* plot.save_configuration('out.json')
SaveConfiguration ==
    /\ plot # None
    /\ \E r \in {Plot_save_configuration(plot, "out.json", Heap, fs)} :
           /\ fs' = r.files
           /\ call' = [op |-> "save_configuration", output_json_file |-> "out.json"]
           /\ result' = [exc |-> r.exc, configuration |-> r.configuration,
                         rendered |-> r.rendered, loaded |-> r.loaded,
                         handles |-> r.handles]
    /\ UNCHANGED <<plot, process>>

\* plot = Plot(configuration_file='out.json'), once the session's Plot has
\* saved its document there: the session goes on with the file-replay Plot
NewPlotFromSaved ==
    /\ plot # None
    /\ plot.input_configuration_file = None
    /\ call.op = "save_configuration"
    /\ result.exc = ""
    /\ \E r \in {Plot_init(None, None, None, Str(call.output_json_file))} :
           /\ plot' = r.self
           /\ call' = [op |-> "Plot", spatially_resolved_properties |-> None,
                       molecular_properties |-> None, framed_properties |-> None,
                       configuration_file |-> Str(call.output_json_file)]
           /\ result' = [exc |-> r.exc]
    /\ UNCHANGED <<fs, process>>

Next ==
    \/ NewPlot
    \/ AddView
    \/ RemoveView
    \/ Show
    \/ SaveConfiguration
    \/ NewPlotFromSaved

Spec == Init /\ [][Next]_vars

---------------------------------------------------------------------------
(* Claims about the Plot session (Spec) *)

\* whether the session's Plot was constructed without a configuration file
Programmatic == plot # None /\ plot.input_configuration_file = None

\* whether the last operation was a document build (show, save_configuration)
IsBuild(c) == c.op \in {"show", "save_configuration"}

\* the configuration the plot's schemas give the view behind reference v
ConfigOf(v) ==
    View_get_configuration(Heap[v], plot.spatially_resolved_properties,
                           plot.molecular_properties, plot.framed_properties,
                           fs).configuration

\* whether list m is list l without the earliest occurrence of v
IsWithoutEarliest(m, l, v) ==
    \E i \in 1..Len(l) :
        /\ l[i] = v
        /\ \A j \in 1..(i - 1) : l[j] # v
        /\ m = SubSeq(l, 1, i - 1) \o SubSeq(l, i + 1, Len(l))

\* C1: on a Plot constructed with a configuration_file, every add_view call,
\* whatever came before it, raises and leaves the view list as it was, empty.
C1_AddViewRejected ==
    [][(plot # None /\ plot.input_configuration_file # None /\ call'.op = "add_view")
        => (result'.exc # "" /\ plot.views = <<>> /\ plot'.views = <<>>)]_vars

\* C1 witness: add_view was called on a Plot with a configuration file and
\* raised, the view list being empty
C1_Witness ==
    /\ plot # None
    /\ plot.input_configuration_file = Str("conf.json")
    /\ call.op = "add_view"
    /\ result.exc = "ValueError"
    /\ plot.views = <<>>

\* C2: in programmatic mode a document build (show or save_configuration)
\* raises whenever the Plot holds no views, and every document such a build
\* returns has a non-empty views list.
C2_EmptyPlotFails ==
    (Programmatic /\ IsBuild(call))
        => /\ (plot.views = <<>> => result.exc # "")
           /\ (result.exc = "" => Len(result.configuration.views) > 0)

\* C2 witness: the views of a programmatic Plot were all removed again (the
\* saved document shows it held some) and the build raised for lack of views
C2_Witness ==
    /\ Programmatic
    /\ IsBuild(call)
    /\ plot.views = <<>>
    /\ result.exc = "ValueError"
    /\ Exists(fs, "out.json")

\* C3: add_view appends its view, remove_view deletes the earliest occurrence
\* of its view, and the views list of a document built programmatically has
\* one entry per view held, in that order (a view added twice appears twice).
C3_ViewsInInsertionOrder ==
    [][/\ (call'.op = "add_view" /\ result'.exc = "")
            => plot'.views = Append(plot.views, call'.plot_view)
       /\ (call'.op = "remove_view" /\ result'.exc = "")
            => IsWithoutEarliest(plot'.views, plot.views, call'.plot_view)
       /\ (Programmatic /\ IsBuild(call') /\ result'.exc = "")
            => result'.configuration.views
                 = [i \in 1..Len(plot.views) |-> ConfigOf(plot.views[i])]
      ]_vars

\* C3 witness: a document of three views, one of them held twice, was saved;
\* that view was then removed once, and the document shown next lists the
\* two views left, the later occurrence in its place
C3_Witness ==
    /\ Programmatic
    /\ call.op = "show"
    /\ result.exc = ""
    /\ Exists(fs, "out.json")
    /\ fs["out.json"].json.members["views"]
          = JsonArray(<<JsonOfView(ConfigOf("v2")), JsonOfView(ConfigOf("v1")),
                        JsonOfView(ConfigOf("v2"))>>)
    /\ plot.views = <<"v1", "v2">>
    /\ result.configuration.views = <<ConfigOf("v1"), ConfigOf("v2")>>
    /\ ConfigOf("v1") # ConfigOf("v2")

\* whether the frame column, if one is declared, is a column of every schema
\* passed along with it
FrameColumnValid(c) ==
    c.framed_properties # None =>
        /\ c.spatially_resolved_properties # None
              => Contains(c.spatially_resolved_properties.columns,
                          c.framed_properties.frame_column)
        /\ c.molecular_properties # None
              => Contains(c.molecular_properties.columns,
                          c.framed_properties.frame_column)

---------------------------------------------------------------------------
(* SpecSchema: the schema classes, called on their own: a schema is         *)
(* constructed, then asked for its plot setup                              *)

\* the column names a caller's column list is made of
SchemaColumnNames == {"x", "y", "z", "atom", "rho"}

\* the columns argument: omitted, or any list of at most MaxCols names
\* (repeats included: the constructors do not reject them)
ColumnArguments ==
    {None} \cup {List(l) : l \in SeqsUpTo(SchemaColumnNames, MaxCols)}

InitSchema ==
    /\ plot = None
    /\ fs = InitFiles
    /\ call = [op |-> "start"]
    /\ result = [exc |-> ""]
    /\ process = import_electrolens

\* MolecularDataProperties(columns)
NewMolecularDataProperties ==
    /\ call.op = "start"
    /\ \E columns \in ColumnArguments, order \in Orders(required_columns) :
          /\ call' = [op |-> "MolecularDataProperties", columns |-> columns]
          /\ result' = MolecularDataProperties_init(columns, order)
    /\ UNCHANGED <<plot, fs, process>>

\* SpatiallyResolvedDataProperties(columns, density_property, 0, 1)
NewSpatiallyResolvedDataProperties ==
    /\ call.op = "start"
    /\ \E columns \in ColumnArguments, density_property \in {"rho", "x"},
          order \in Orders(required_columns) :
          /\ call' = [op |-> "SpatiallyResolvedDataProperties", columns |-> columns,
                      density_property |-> density_property]
          /\ result' = SpatiallyResolvedDataProperties_init(
                           columns, density_property, Num(0), Num(1), order)
    /\ UNCHANGED <<plot, fs, process>>

\* properties.add_plot_setup({}) on the molecular schema just constructed
MolecularAddPlotSetup ==
    /\ call.op = "MolecularDataProperties"
    /\ result.exc = ""
    /\ call' = [op |-> "MolecularDataProperties.add_plot_setup", self |-> result.self]
    /\ result' = [exc |-> "",
                  configuration |->
                      MolecularDataProperties_add_plot_setup(result.self, EmptyDict)]
    /\ UNCHANGED <<plot, fs, process>>

\* properties.add_plot_setup({}) on the spatially resolved schema just
\* constructed
SpatiallyResolvedAddPlotSetup ==
    /\ call.op = "SpatiallyResolvedDataProperties"
    /\ result.exc = ""
    /\ call' = [op |-> "SpatiallyResolvedDataProperties.add_plot_setup",
                self |-> result.self]
    /\ result' = [exc |-> "",
                  configuration |->
                      SpatiallyResolvedDataProperties_add_plot_setup(result.self,
                                                                     EmptyDict)]
    /\ UNCHANGED <<plot, fs, process>>

NextSchema ==
    \/ NewMolecularDataProperties
    \/ NewSpatiallyResolvedDataProperties
    \/ MolecularAddPlotSetup
    \/ SpatiallyResolvedAddPlotSetup

SpecSchema == InitSchema /\ [][NextSchema]_vars

---------------------------------------------------------------------------
(* Claims about the schema classes (SpecSchema) *)

---------------------------------------------------------------------------
(* SpecConv: the converters, called once each on a fresh view configuration *)

\* the column names a converter's schema is made of
ConverterColumnNames == {"x", "y", "z", "atom", "frame"}

\* the column lists of the molecular schemas handed to a converter: every
\* ordering of every set of names that includes x, y and z
ConverterColumns ==
    UNION {Orders(S) : S \in {T \in SUBSET ConverterColumnNames : required_columns \subseteq T}}

\* the view configuration a ThreeDView hands to its data: the header only
FreshOutput == [viewType |-> "3DView", moleculeName |-> "Cu"]

\* the numbers of atoms of the frames of a trajectory
FrameCounts == SeqsUpTo(0..MaxAtoms, MaxFrames)

InitConv ==
    /\ plot = None
    /\ fs = InitFiles
    /\ call = [op |-> "start"]
    /\ result = [exc |-> ""]
    /\ process = import_electrolens

\* ASEAtomsToMolecularDataConverter(atoms).convert(...)
ConvertAtoms ==
    /\ call.op = "start"
    /\ \E columns \in ConverterColumns, fp \in FramedChoices, n \in 0..MaxAtoms,
          file \in {None, FileHandle("data.csv")} :
          /\ call' = [op |-> "ASEAtomsToMolecularDataConverter.convert",
                      data |-> Snapshot(0, n),
                      properties |-> [columns |-> columns],
                      framed_properties |-> fp,
                      data_output_file |-> file]
          /\ result' = ASEAtoms_convert(Snapshot(0, n), FreshOutput,
                                        [columns |-> columns], fp, file)
    /\ UNCHANGED <<plot, fs, process>>

\* ASETrajectoryToMolecularDataConverter(trajectory).convert(...)
ConvertTrajectory ==
    /\ call.op = "start"
    /\ \E columns \in ConverterColumns, fp \in FramedChoices, counts \in FrameCounts,
          file \in {None, FileHandle("data.csv")} :
          /\ call' = [op |-> "ASETrajectoryToMolecularDataConverter.convert",
                      data |-> Trajectory(counts),
                      properties |-> [columns |-> columns],
                      framed_properties |-> fp,
                      data_output_file |-> file]
          /\ result' = ASETrajectory_convert(Trajectory(counts), FreshOutput,
                                             [columns |-> columns], fp, file)
    /\ UNCHANGED <<plot, fs, process>>

\* ArrayToMolecularDataConverter(array).convert(...); the array has one
\* column per schema column
ConvertArray ==
    /\ call.op = "start"
    /\ \E columns \in ConverterColumns, n \in 0..MaxAtoms, cell \in {None, Lattice2},
          file \in {None, FileHandle("data.csv")} :
       \E np_atoms \in {None, List(Species(n))} :
          /\ call' = [op |-> "ArrayToMolecularDataConverter.convert",
                      data |-> Array(n, Len(columns)),
                      properties |-> [columns |-> columns],
                      extra_properties |-> [np_atoms |-> np_atoms, cell |-> cell],
                      data_output_file |-> file]
          /\ result' = Array_convert(Array(n, Len(columns)), FreshOutput,
                                     [columns |-> columns],
                                     [np_atoms |-> np_atoms, cell |-> cell], file)
    /\ UNCHANGED <<plot, fs, process>>

\* FileToAnyDataConverter(path, target_format).convert(...)
ConvertFile ==
    /\ call.op = "start"
    /\ \E path \in {"density.csv", "missing.csv"},
          target_format \in {"MOLECULAR_DATA", "SPATIALLY_RESOLVED_DATA"} :
          /\ call' = [op |-> "FileToAnyDataConverter.convert",
                      data |-> Path(path),
                      target_format |-> target_format,
                      data_output_file |-> None]
          /\ result' = FileToAny_convert(Path(path), target_format, FreshOutput,
                                         None, Exists(fs, path))
    /\ UNCHANGED <<plot, fs, process>>

\* the rows a lattice handed to the geometry step is made of: the zero row
\* and rows of whole-number length, along an axis or not
LatticeRows ==
    {<<0, 0, 0>>, <<2, 0, 0>>, <<0, 2, 0>>, <<0, 0, 2>>, <<3, 4, 0>>, <<1, 2, 2>>}

\* the lattices handed to the geometry step
Lattices == {Cell(<<a, b, c>>) : a \in LatticeRows, b \in LatticeRows, c \in LatticeRows}

\* the view configurations handed to the geometry step: the header, with
\* or without the systemDimension and systemLatticeVectors of the user
GeometryOutputs ==
    LET user == ThreeDView_init("Cu", List(<<3, 4, 5>>),
                    List(<<<<0, 1, 0>>, <<1, 0, 0>>, <<0, 0, 1>>>>))
        withDimension == Put(FreshOutput, "systemDimension", user.system_dimensions)
    IN  {FreshOutput,
         withDimension,
         Put(FreshOutput, "systemLatticeVectors", user.system_lattice_vectors),
         Put(withDimension, "systemLatticeVectors", user.system_lattice_vectors)}

\* _init_atoms_(output, atoms_cell), the geometry step on its own
InitAtoms ==
    /\ call.op = "start"
    /\ \E output \in GeometryOutputs, atoms_cell \in Lattices :
          /\ call' = [op |-> "_init_atoms_", output |-> output,
                      atoms_cell |-> atoms_cell]
          /\ result' = [exc |-> "", output |-> _init_atoms_(output, atoms_cell)]
    /\ UNCHANGED <<plot, fs, process>>

\* the members of the enumeration DataFormat
DataFormat ==
    {"MOLECULAR_DATA", "SPATIALLY_RESOLVED_DATA", "TRAJECTORY_DATA", "ATOMS_DATA",
     "ARRAY_DATA", "FILE_DATA"}

\* the inputs handed to create_converter: snapshots, trajectories, arrays,
\* file paths, and objects of types no converter supports
DispatchInputs ==
    {Snapshot(0, n) : n \in 0..MaxAtoms}
    \cup {Trajectory(counts) : counts \in FrameCounts}
    \cup {Array(n, width) : n \in 0..MaxAtoms, width \in {3, 4}}
    \cup {Path("density.csv"), Path("missing.csv")}
    \cup {[kind |-> "list"], [kind |-> "int"], [kind |-> "NoneType"]}

\* Converter.create_converter(data, target_format)
CreateConverter ==
    /\ call.op = "start"
    /\ \E data \in DispatchInputs, target_format \in DataFormat :
          /\ call' = [op |-> "Converter.create_converter", data |-> data,
                      target_format |-> target_format]
          /\ result' = Converter_create_converter(data, target_format)
    /\ UNCHANGED <<plot, fs, process>>

NextConv ==
    \/ ConvertAtoms
    \/ ConvertTrajectory
    \/ ConvertArray
    \/ ConvertFile
    \/ InitAtoms
    \/ CreateConverter

SpecConv == InitConv /\ [][NextConv]_vars

---------------------------------------------------------------------------
(* Claims checked under SpecConv *)

\* the data blocks of the view configuration the last conversion left
DataBlocks ==
    IF "output" \in DOMAIN result
    THEN {result.output[k] : k \in DOMAIN result.output
                                   \cap {"moleculeData", "spatiallyResolvedData"}}
    ELSE {}

\* C7: in the view configuration any converter leaves (snapshot, trajectory,
\* array or file path, any schema, with or without an output data file), the
\* moleculeData / spatiallyResolvedData block never holds both a 'data' key
\* and a 'dataFilename' key.
C7_DataXorFilename ==
    \A block \in DataBlocks : ~({"data", "dataFilename"} \subseteq DOMAIN block)

\* an array of two rows was converted to a side-car file: the block names
\* the file and holds no inline data
C7_Witness ==
    /\ call.op = "ArrayToMolecularDataConverter.convert"
    /\ call.data_output_file # None
    /\ Len(call.data.rows) = MaxAtoms
    /\ result.exc = ""
    /\ "dataFilename" \in DOMAIN result.output["moleculeData"]
    /\ "data" \notin DOMAIN result.output["moleculeData"]

Entities ==
    CASE call.op = "ASEAtomsToMolecularDataConverter.convert" ->
            [a \in 1..Len(call.data.atoms) |->
                [atom |-> call.data.atoms[a], frame |-> 0]]
      [] call.op = "ASETrajectoryToMolecularDataConverter.convert" ->
            Concat([f \in 1..Len(call.data.frames) |->
                [a \in 1..Len(call.data.frames[f].atoms) |->
                    [atom |-> call.data.frames[f].atoms[a], frame |-> f - 1]]])
      [] call.op = "ArrayToMolecularDataConverter.convert" ->
            [a \in 1..Len(call.data.rows) |->
                [row |-> call.data.rows[a],
                 species |-> call.extra_properties.np_atoms.l[a]]]

\* the schema's columns in declared order, 'atom' last when not declared
HeaderOf(columns) ==
    IF \E k \in 1..Len(columns) : columns[k] = "atom"
    THEN columns
    ELSE columns \o <<"atom">>

\* the text a side-car file holds under column c for entity e
FieldOf(e, c) ==
    IF call.op = "ArrayToMolecularDataConverter.convert"
    THEN IF \E k \in 1..Len(call.properties.columns) : call.properties.columns[k] = c
         THEN ToString(e.row[CHOOSE k \in 1..Len(call.properties.columns) :
                                    call.properties.columns[k] = c])
         ELSE e.species
    ELSE CASE c = "x" -> ToString(e.atom.position[1])
           [] c = "y" -> ToString(e.atom.position[2])
           [] c = "z" -> ToString(e.atom.position[3])
           [] c = "atom" -> e.atom.symbol
           [] OTHER -> IF /\ call.framed_properties # None
                          /\ c = call.framed_properties.frame_column
                       THEN ToString(e.frame)
                       ELSE ""

\* C9: for every converter that writes a side-car file (snapshot, trajectory,
\* array) and every valid schema, the header row is the schema's columns in
\* declared order with 'atom' appended last when the schema does not declare
\* it, and every data row has exactly as many fields as the header row, the
\* field under each header column being that column's value for the row's
\* entity.
C9_SidecarHeaderAndRows ==
    (/\ call.op \in {"ASEAtomsToMolecularDataConverter.convert",
                     "ASETrajectoryToMolecularDataConverter.convert",
                     "ArrayToMolecularDataConverter.convert"}
     /\ call.data_output_file # None
     /\ result.exc = "")
    => LET lines == result.file.lines
           header == HeaderOf(call.properties.columns)
       IN  /\ Len(lines) = Len(Entities) + 1
           /\ lines[1] = header
           /\ \A i \in 1..Len(Entities) :
                 /\ Len(lines[i + 1]) = Len(header)
                 /\ \A k \in 1..Len(header) :
                       lines[i + 1][k] = FieldOf(Entities[i], header[k])

\* C10: for every trajectory of N >= 1 frames and every molecular schema
\* whose columns include x, y, z and the declared frame column (whether or
\* not the schema lists 'atom'), conversion succeeds and emits exactly one
\* row per atom per frame, in frame order 0..N-1 and atom order within each
\* frame, each row carrying that atom's coordinates, its species and its
\* frame index under the frame column name.
C10_TrajectoryRowPerAtomPerFrame ==
    (/\ call.op = "ASETrajectoryToMolecularDataConverter.convert"
     /\ Len(call.data.frames) >= 1
     /\ call.framed_properties # None
     /\ \E k \in 1..Len(call.properties.columns) :
           call.properties.columns[k] = call.framed_properties.frame_column)
    => /\ result.exc = ""
       /\ LET frame_column == call.framed_properties.frame_column
              carried == {"x", "y", "z", "atom", frame_column}
          IN  IF call.data_output_file # None
              THEN LET lines == result.file.lines
                   IN  /\ Len(lines) = Len(Entities) + 1
                       /\ \A i \in 1..Len(Entities) :
                             \A c \in carried :
                                \E k \in 1..Len(lines[1]) :
                                   /\ lines[1][k] = c
                                   /\ k <= Len(lines[i + 1])
                                   /\ lines[i + 1][k] = FieldOf(Entities[i], c)
              ELSE LET data == result.output["moleculeData"]["data"]
                   IN  /\ Len(data) = Len(Entities)
                       /\ \A i \in 1..Len(Entities) :
                             /\ carried \subseteq DOMAIN data[i]
                             /\ data[i]["x"] = Num(Entities[i].atom.position[1])
                             /\ data[i]["y"] = Num(Entities[i].atom.position[2])
                             /\ data[i]["z"] = Num(Entities[i].atom.position[3])
                             /\ data[i]["atom"] = Str(Entities[i].atom.symbol)
                             /\ data[i][frame_column] = Num(Entities[i].frame)

---------------------------------------------------------------------------
(* SpecView: one ThreeDView is constructed, given its data, and asked for  *)
(* its configuration                                                       *)

\* a lattice whose rows are neither axis-aligned nor of equal length; the
\* rows have the lengths 5, 13 and 2
LatticeSkew == Cell(<<<<3, 4, 0>>, <<0, 5, 12>>, <<0, 0, 2>>>>)

\* the system_dimensions and system_lattice_vectors a caller may pass
UserDimensions == {None, List(<<3, 4, 5>>)}
UserLatticeVectors == {None, List(<<<<0, 1, 0>>, <<1, 0, 0>>, <<0, 0, 1>>>>)}

\* the molecular data a caller may add to a view: a snapshot, an empty and
\* a two-frame trajectory whose frames have different cells, an array with
\* and without its species labels and cell, an existing and a missing file
ViewMolecularData ==
    {MolecularData_init([Snapshot(0, MaxAtoms) EXCEPT !.cell = LatticeSkew], None, None),
     MolecularData_init(Trajectory(<<>>), None, None),
     MolecularData_init(
         [kind |-> "TrajectoryReader",
          frames |-> <<[Snapshot(0, MaxAtoms) EXCEPT !.cell = LatticeSkew],
                       Snapshot(1, 1)>>], None, None),
     MolecularData_init(Array(MaxAtoms, 5), List(Species(MaxAtoms)), LatticeSkew),
     MolecularData_init(Array(MaxAtoms, 5), None, LatticeSkew),
     MolecularData_init(Array(MaxAtoms, 5), List(Species(MaxAtoms)), None),
     MolecularData_init(Path("density.csv"), None, None),
     MolecularData_init(Path("missing.csv"), None, None)}

\* the spatially resolved data a caller may add to a view: an existing or a
\* missing file or an array, with or without grid points and grid spacing
ViewSpatiallyResolvedData ==
    {SpatiallyResolvedData_init(data, grid_points, grid_spacing, np_atoms, LatticeSkew) :
        data \in {Path("density.csv"), Path("missing.csv"), Array(MaxAtoms, 4)},
        grid_points \in {None, List(<<10, 20, 30>>)},
        grid_spacing \in {None, List(<<1, 2, 3>>)},
        np_atoms \in {List(Species(MaxAtoms))}}

InitView ==
    /\ plot = None
    /\ fs = InitFiles
    /\ call = [op |-> "start"]
    /\ result = [exc |-> ""]
    /\ process = import_electrolens

\* view = ThreeDView('Cu', ...)
NewThreeDView ==
    /\ call.op = "start"
    /\ \E system_dimensions \in UserDimensions,
          system_lattice_vectors \in UserLatticeVectors :
          /\ call' = [op |-> "ThreeDView",
                      system_dimensions |-> system_dimensions,
                      system_lattice_vectors |-> system_lattice_vectors]
          /\ result' = [exc |-> "",
                        self |-> ThreeDView_init("Cu", system_dimensions,
                                                 system_lattice_vectors)]
    /\ UNCHANGED <<plot, fs, process>>

\* view.add_data(data, output_data_file), once per kind of data
AddData ==
    /\ call.op \in {"ThreeDView", "ThreeDView.add_data"}
    /\ \E data \in ViewMolecularData \cup ViewSpatiallyResolvedData,
          output_data_file \in {None, Str("data.csv")} :
          /\ data.class = "MolecularData" => result.self.molecular_data = None
          /\ data.class = "SpatiallyResolvedData"
                => result.self.spatially_resolved_data = None
          /\ \E r \in {ThreeDView_add_data(result.self, data, output_data_file)} :
                /\ call' = [op |-> "ThreeDView.add_data", self |-> result.self,
                            data |-> data, output_data_file |-> output_data_file]
                /\ result' = [exc |-> r.exc, self |-> r.self]
    /\ UNCHANGED <<plot, fs, process>>

\* view.get_configuration(...), as Plot calls it with its schemas
GetConfiguration ==
    /\ call.op \in {"ThreeDView", "ThreeDView.add_data"}
    /\ \E srp \in SpatiallyResolvedChoices, mp \in MolecularChoices,
          fp \in FramedChoices :
          \E r \in {ThreeDView_get_configuration(result.self, srp, mp, fp, fs)} :
              /\ call' = [op |-> "ThreeDView.get_configuration", self |-> result.self,
                          spatially_resolved_properties |-> srp,
                          molecular_properties |-> mp,
                          framed_properties |-> fp]
              /\ result' = [exc |-> r.exc, self |-> result.self,
                            configuration |-> r.configuration,
                            handles |-> r.handles]
              /\ fs' = r.files
    /\ UNCHANGED <<plot, process>>

NextView ==
    \/ NewThreeDView
    \/ AddData
    \/ GetConfiguration

SpecView == InitView /\ [][NextView]_vars

---------------------------------------------------------------------------
(* Claims about a view's configuration (SpecView) *)

\* a number of a configuration as a quotient: a Num is itself over one
AsRatio(v) == IF "n" \in DOMAIN v THEN [num |-> v.n, den |-> 1] ELSE v

\* whether two numbers of a configuration are the same number
SameNumber(a, b) == AsRatio(a).num * AsRatio(b).den = AsRatio(b).num * AsRatio(a).den

\* whether two blocks have the same keys and the same number under each
SameBlock(a, b) ==
    /\ DOMAIN a = DOMAIN b
    /\ \A k \in DOMAIN a : SameNumber(a[k], b[k])

\* the Euclidean length of a row whose length is a whole number
Length(v) == CHOOSE r \in 0..(v[1] * v[1] + v[2] * v[2] + v[3] * v[3]) :
                 r * r = v[1] * v[1] + v[2] * v[2] + v[3] * v[3]

\* the systemDimension a lattice stands for: the lengths of its rows
DimensionOf(L) ==
    [x |-> Num(Length(L.m[1])), y |-> Num(Length(L.m[2])), z |-> Num(Length(L.m[3]))]

\* the systemLatticeVectors a lattice of non-zero rows stands for: each row
\* divided by its length
UnitVectorsOf(L) ==
    LET u(i, j) == [num |-> L.m[i][j], den |-> Length(L.m[i])]
    IN  [u11 |-> u(1, 1), u12 |-> u(1, 2), u13 |-> u(1, 3),
         u21 |-> u(2, 1), u22 |-> u(2, 2), u23 |-> u(2, 3),
         u31 |-> u(3, 1), u32 |-> u(3, 2), u33 |-> u(3, 3)]

\* the default blocks
DefaultDimension == [x |-> Num(10), y |-> Num(10), z |-> Num(10)]
DefaultVectors ==
    [u11 |-> Num(1), u12 |-> Num(0), u13 |-> Num(0),
     u21 |-> Num(0), u22 |-> Num(1), u23 |-> Num(0),
     u31 |-> Num(0), u32 |-> Num(0), u33 |-> Num(1)]

\* the blocks made of the values the model's caller passes to ThreeDView
UserDimension == [x |-> Num(3), y |-> Num(4), z |-> Num(5)]
UserVectors ==
    [u11 |-> Num(0), u12 |-> Num(1), u13 |-> Num(0),
     u21 |-> Num(1), u22 |-> Num(0), u23 |-> Num(0),
     u31 |-> Num(0), u32 |-> Num(0), u33 |-> Num(1)]

\* the lattice of the molecular data of view, when that data has one: the
\* snapshot's cell, frame 0's cell, the cell given with an array
LatticeOfData(view) ==
    LET d == view.molecular_data
    IN  CASE d.data.kind = "Atoms" -> d.data.cell
          [] d.data.kind = "TrajectoryReader" -> d.data.frames[1].cell
          [] d.data.kind = "ndarray" -> d.ase_cell

\* whether a molecular converter derived the geometry of the last
\* get_configuration call from a lattice
ConverterSupplied ==
    /\ call.molecular_properties # None
    /\ call.self.molecular_data # None
    /\ call.self.molecular_data.data.kind # "str"

\* C11: in the configuration ThreeDView.get_configuration returns,
\* systemDimension and systemLatticeVectors are each, independently, the
\* value the user passed to the constructor if any, otherwise the value the
\* molecular converter derived from the lattice, otherwise the default.
C11_GeometryPrecedence ==
    (call.op = "ThreeDView.get_configuration" /\ result.exc = "")
    => /\ SameBlock(result.configuration["systemDimension"],
             IF call.self.system_dimensions # None THEN UserDimension
             ELSE IF ConverterSupplied THEN DimensionOf(LatticeOfData(call.self))
             ELSE DefaultDimension)
       /\ SameBlock(result.configuration["systemLatticeVectors"],
             IF call.self.system_lattice_vectors # None THEN UserVectors
             ELSE IF ConverterSupplied THEN UnitVectorsOf(LatticeOfData(call.self))
             ELSE DefaultVectors)

\* a view given lattice vectors but no dimensions by its user, holding a
\* two-frame trajectory, returned the user's vectors and the dimensions of
\* frame 0's cell
C11_Witness ==
    /\ call.op = "ThreeDView.get_configuration"
    /\ result.exc = ""
    /\ call.self.system_dimensions = None
    /\ call.self.system_lattice_vectors # None
    /\ ConverterSupplied
    /\ call.self.molecular_data.data.kind = "TrajectoryReader"
    /\ result.configuration["systemLatticeVectors"] = UserVectors
    /\ result.configuration["systemDimension"] = [x |-> Num(5), y |-> Num(13), z |-> Num(2)]

---------------------------------------------------------------------------
(* Claims about the geometry step (SpecConv) *)

\* whether the three numbers of a row have squares that add up to one
UnitRow(a, b, c) ==
    LET p == AsRatio(a)
        q == AsRatio(b)
        r == AsRatio(c)
    IN  p.num * p.num * q.den * q.den * r.den * r.den
        + q.num * q.num * p.den * p.den * r.den * r.den
        + r.num * r.num * p.den * p.den * q.den * q.den
        = p.den * p.den * q.den * q.den * r.den * r.den

\* C12: for any 3x3 lattice matrix L handed to the geometry step, the
\* all-zero cell included, each row of the derived systemLatticeVectors has
\* unit L2 norm and systemDimension x, y, z equal the L2 norms of rows 0, 1,
\* 2 of L; L = 2 * identity gives systemDimension {2, 2, 2} and identity
\* lattice vectors.
C12_UnitRowsAndLengths ==
    (/\ call.op = "_init_atoms_"
     /\ "systemDimension" \notin DOMAIN call.output
     /\ "systemLatticeVectors" \notin DOMAIN call.output)
    => LET d == result.output["systemDimension"]
           u == result.output["systemLatticeVectors"]
       IN  /\ SameBlock(d, DimensionOf(call.atoms_cell))
           /\ UnitRow(u["u11"], u["u12"], u["u13"])
           /\ UnitRow(u["u21"], u["u22"], u["u23"])
           /\ UnitRow(u["u31"], u["u32"], u["u33"])
           /\ call.atoms_cell = Lattice2
                 => /\ SameBlock(d, [x |-> Num(2), y |-> Num(2), z |-> Num(2)])
                    /\ SameBlock(u, DefaultVectors)

---------------------------------------------------------------------------
(* Claims about the converters' errors and dispatch (SpecConv) *)

\* C13: array-to-molecular conversion fails with an error whenever the
\* species-label list (np_atoms) or the lattice (cell) is absent, before
\* writing anything into the target view configuration or the output file.
C13_ArrayNeedsSpeciesAndCell ==
    (/\ call.op = "ArrayToMolecularDataConverter.convert"
     /\ \/ call.extra_properties.np_atoms = None
        \/ call.extra_properties.cell = None)
    => /\ result.exc # ""
       /\ result.output = FreshOutput
       /\ DOMAIN result.output
             \cap {"systemDimension", "systemLatticeVectors", "moleculeData"} = {}
       /\ result.file = call.data_output_file

\* an array of MaxAtoms rows with its species labels but no cell, to be
\* written to a file, was refused
C13_Witness ==
    /\ call.op = "ArrayToMolecularDataConverter.convert"
    /\ call.extra_properties.np_atoms # None
    /\ call.extra_properties.cell = None
    /\ Len(call.data.rows) = MaxAtoms
    /\ call.data_output_file # None
    /\ result.exc = "TypeError"
    /\ result.output = FreshOutput

\* the converter class that matches an input kind and a target format, ""
\* when none does
MatchingConverter(kind, target_format) ==
    CASE kind = "TrajectoryReader" /\ target_format = "MOLECULAR_DATA" ->
            "ASETrajectoryToMolecularDataConverter"
      [] kind = "Atoms" /\ target_format = "MOLECULAR_DATA" ->
            "ASEAtomsToMolecularDataConverter"
      [] kind = "ndarray" /\ target_format = "MOLECULAR_DATA" ->
            "ArrayToMolecularDataConverter"
      [] kind = "ndarray" /\ target_format = "SPATIALLY_RESOLVED_DATA" ->
            "ArrayToSpatiallyResolvedDataConverter"
      [] kind = "str" -> "FileToAnyDataConverter"
      [] OTHER -> ""

\* C14: create_converter is a total dispatch over (input kind, target
\* format): (trajectory, molecular), (snapshot, molecular), (array,
\* molecular), (array, spatially resolved) and (file path, any) each return
\* their one matching converter, holding the input; every other combination
\* and every input of an unsupported type fails with an error and returns
\* no converter.
C14_TotalDispatch ==
    call.op = "Converter.create_converter" =>
        LET class == MatchingConverter(call.data.kind, call.target_format)
        IN  IF class # ""
            THEN /\ result.exc = ""
                 /\ result.converter # None
                 /\ result.converter.class = class
                 /\ result.converter.data = call.data
            ELSE /\ result.exc # ""
                 /\ result.converter = None

\* a trajectory requested as spatially resolved data was refused
C14_Witness ==
    /\ call.op = "Converter.create_converter"
    /\ call.data.kind = "TrajectoryReader"
    /\ call.target_format = "SPATIALLY_RESOLVED_DATA"
    /\ result.exc = "TypeError"
    /\ result.converter = None

---------------------------------------------------------------------------
(* Claims about a view's data (SpecView) *)

\* whether the last call asked a view for its configuration with a
\* spatially resolved schema, the view holding spatially resolved data of
\* the given kind
SpatialRequested(kind) ==
    /\ call.op = "ThreeDView.get_configuration"
    /\ call.spatially_resolved_properties # None
    /\ call.self.spatially_resolved_data # None
    /\ call.self.spatially_resolved_data.data.kind = kind

\* C15: requesting conversion of an array input to spatially resolved data
\* fails with an error: building a view whose SpatiallyResolvedData holds a
\* numeric array never returns a view configuration.
C15_ArrayToSpatialFails ==
    SpatialRequested("ndarray") => result.exc # ""

\* C20: for a ThreeDView whose spatially resolved data is a file path, the
\* spatiallyResolvedData block of the returned view configuration carries
\* the converter's data reference (dataFilename, the absolute path of that
\* file) and, in addition, numGridPoints exactly when grid_points was
\* supplied and gridSpacing exactly when grid_spacing was supplied.
C20_SpatialBlockOfFile ==
    (SpatialRequested("str") /\ result.exc = "")
    => LET data == call.self.spatially_resolved_data
           block == result.configuration["spatiallyResolvedData"]
       IN  /\ "dataFilename" \in DOMAIN block
           /\ block["dataFilename"] = "/cwd/" \o data.data.path
           /\ "numGridPoints" \in DOMAIN block <=> data.grid_points # None
           /\ "gridSpacing" \in DOMAIN block <=> data.grid_spacing # None
           /\ data.grid_points # None
                 => block["numGridPoints"] = [x |-> Num(10), y |-> Num(20), z |-> Num(30)]
           /\ data.grid_spacing # None
                 => block["gridSpacing"] = [x |-> Num(1), y |-> Num(2), z |-> Num(3)]

---------------------------------------------------------------------------
(* Claims about the built document (Spec) *)

\* C19: the plotSetup of a programmatically built document is the key union
\* of the contributions of the schemas the Plot was constructed with:
\* moleculePropertyList iff a molecular schema was given;
\* spatiallyResolvedPropertyList, pointcloudDensity, densityCutoffLow and
\* densityCutoffUp (the declared bounds verbatim, whatever their order) iff
\* a spatially resolved schema was given; frameProperty iff a framed schema
\* was given; whichever and however many views were added.
C19_PlotSetupKeyUnion ==
    (Programmatic /\ IsBuild(call) /\ result.exc = "")
    => LET setup == result.configuration.plotSetup
           srp == plot.spatially_resolved_properties
           mp == plot.molecular_properties
           fp == plot.framed_properties
       IN  /\ DOMAIN setup =
                 (IF mp # None THEN {"moleculePropertyList"} ELSE {})
                 \cup (IF srp # None
                       THEN {"spatiallyResolvedPropertyList", "pointcloudDensity",
                             "densityCutoffLow", "densityCutoffUp"}
                       ELSE {})
                 \cup (IF fp # None THEN {"frameProperty"} ELSE {})
           /\ mp # None => setup["moleculePropertyList"] = HeaderOf(mp.columns)
           /\ srp # None =>
                 /\ setup["spatiallyResolvedPropertyList"] = HeaderOf(srp.columns)
                 /\ setup["pointcloudDensity"] = srp.density_property
                 /\ setup["densityCutoffLow"] = srp.density_lower_limit
                 /\ setup["densityCutoffUp"] = srp.density_upper_limit
           /\ fp # None => setup["frameProperty"] = fp.frame_column

\* a document of two views was built for a Plot given all three schemas,
\* the lower density bound above the upper one
C19_Witness ==
    /\ Programmatic
    /\ IsBuild(call)
    /\ result.exc = ""
    /\ Len(plot.views) = 2
    /\ plot.molecular_properties # None
    /\ plot.framed_properties # None
    /\ plot.spatially_resolved_properties # None
    /\ result.configuration.plotSetup["densityCutoffLow"] = Num(5)
    /\ result.configuration.plotSetup["densityCutoffUp"] = Num(1)
    /\ result.configuration.plotSetup["frameProperty"] = "frame"

\* C17: building is idempotent and deterministic: of two successive document
\* builds of the same Plot, no add_view or remove_view in between, the second
\* returns (or raises) what the first did; and a build leaves the Plot, its
\* view list and its schemas' columns as they were.
C17_BuildIdempotent ==
    [][/\ IsBuild(call') => plot' = plot
       /\ (IsBuild(call) /\ IsBuild(call'))
          => /\ result'.exc = result.exc
             /\ result'.configuration = result.configuration]_vars

\* a show has returned the document of two views that an earlier
\* save_configuration of the same Plot wrote, the side-car file in place
C17_Witness ==
    /\ Programmatic
    /\ call.op = "show"
    /\ result.exc = ""
    /\ Len(plot.views) = 2
    /\ Exists(fs, "data.csv")
    /\ Exists(fs, "out.json")
    /\ fs["out.json"].json = JsonOfDocument(result.configuration)

---------------------------------------------------------------------------
(* Claims about file handles (SpecView) *)

\* the handles a log of open and close events leaves open, innermost last;
\* a close of anything but the innermost open handle leaves <<"unbalanced">>
RECURSIVE OpenHandles(_)
OpenHandles(log) ==
    IF Len(log) = 0
    THEN <<>>
    ELSE LET before == OpenHandles(SubSeq(log, 1, Len(log) - 1))
             e == log[Len(log)]
         IN  IF before = <<"unbalanced">>
             THEN before
             ELSE IF e.ev = "open"
             THEN Append(before, e.name)
             ELSE IF Len(before) > 0 /\ before[Len(before)] = e.name
             THEN SubSeq(before, 1, Len(before) - 1)
             ELSE <<"unbalanced">>

\* whether every handle of the log is closed, innermost first, and at most
\* depth handles are ever open together
Scoped(log, depth) ==
    /\ OpenHandles(log) = <<>>
    /\ \A i \in 1..Len(log) : Len(OpenHandles(SubSeq(log, 1, i))) <= depth

\* whether the last operation was a get_configuration of the view
IsGetConfiguration == call.op = "ThreeDView.get_configuration"

\* C18: every file handle opened for an externalization, and the handle
\* FileToAnyDataConverter opens on its input file, is closed when the
\* conversion returns or raises: at most one handle is open at any time and
\* none is open when get_configuration has finished, whether it succeeded or
\* failed.
C18_OneHandleAtATime ==
    IsGetConfiguration => Scoped(result.handles, 1)

\* get_configuration raised out of a conversion that had opened its
\* side-car file, which is closed
C18_Witness ==
    /\ IsGetConfiguration
    /\ result.exc # ""
    /\ Len(result.handles) >= 2
    /\ result.handles[1] = Opened("data.csv")
    /\ result.handles[Len(result.handles)] = Closed("data.csv")

---------------------------------------------------------------------------
(* Claims about the round trip through a saved document (Spec) *)

\* whether the session's Plot replays the configuration file at path
Replays(path) == plot # None /\ plot.input_configuration_file = Str(path)

\* C16: round trip.  When a programmatic Plot has saved its document to a
\* file, a Plot constructed with that file as its configuration_file builds
\* a document structurally identical to the one saved (it serialises to the
\* same JSON text); and every build of a file-replay Plot returns what
\* parsing its file gives, nothing added, dropped or reordered, and leaves
\* the file as it was.
C16_RoundTrip ==
    [][/\ (Programmatic /\ call'.op = "save_configuration" /\ result'.exc = "")
          => /\ Len(result'.configuration.views) > 0
             /\ \E b \in {Plot__create_configuration__(
                              Plot_init(None, None, None,
                                        Str(call'.output_json_file)).self,
                              Heap, fs')} :
                   /\ b.exc = ""
                   /\ JsonOfDocument(b.configuration)
                        = JsonOfDocument(result'.configuration)
                   /\ DOMAIN b.configuration = DOMAIN result'.configuration
                   /\ Len(b.configuration.views) = Len(result'.configuration.views)
                   /\ \A i \in 1..Len(b.configuration.views) :
                         DOMAIN b.configuration.views[i]
                           = DOMAIN result'.configuration.views[i]
                   /\ DOMAIN b.configuration.plotSetup
                        = DOMAIN result'.configuration.plotSetup
       /\ (Replays("out.json") /\ IsBuild(call') /\ result'.exc = "")
          => /\ result'.configuration = json_load(fs, "out.json").configuration
             /\ JsonOfDocument(result'.configuration) = fs["out.json"].json
             /\ fs'["out.json"] = fs["out.json"]]_vars

\* a Plot constructed from the file a programmatic Plot saved has built the
\* document of two views that the file holds, side-car file and grid included
C16_Witness ==
    /\ Replays("out.json")
    /\ IsBuild(call)
    /\ result.exc = ""
    /\ Len(result.configuration.views) = 2
    /\ {"moleculeData", "spatiallyResolvedData"}
          \subseteq DOMAIN result.configuration.views[1]
    /\ result.configuration.views[1].moleculeData.dataFilename = "/cwd/data.csv"
    /\ "numGridPoints" \in DOMAIN result.configuration.views[1].spatiallyResolvedData
    /\ "view" \in DOMAIN result.configuration.views[2]
    /\ "pointcloudDensity" \in DOMAIN result.configuration.plotSetup
    /\ fs["out.json"].json = JsonOfDocument(result.configuration)

---------------------------------------------------------------------------
(* Claims about the views of a built document (Spec) *)

\* C21: every element of the views list of a programmatically built document,
\* whether it comes from a ThreeDView or a TwoDHeatmap, has a top-level
\* viewType key whose value is the type of its view, "3DView" or "2DHeatmap".
C21_TopLevelViewType ==
    (Programmatic /\ IsBuild(call) /\ result.exc = "")
    => \A i \in 1..Len(result.configuration.views) :
          /\ "viewType" \in DOMAIN result.configuration.views[i]
          /\ result.configuration.views[i]["viewType"] = Heap[plot.views[i]].view_type
          /\ Heap[plot.views[i]].view_type \in {"3DView", "2DHeatmap"}

---------------------------------------------------------------------------
(* Claims about the data a view holds (SpecView) *)

\* whether get_configuration was called with schemas a Plot can declare: a
\* molecular schema, a spatially resolved one, or both
PlotSchemas ==
    \/ call.molecular_properties # None
    \/ call.spatially_resolved_properties # None

\* C22: for a ThreeDView to which one kind of data, or both, was added,
\* get_configuration under any combination of schemas a Plot can declare
\* does not fail for want of the other kind of data, and what it returns has
\* a moleculeData block exactly when the view holds molecular data and a
\* spatiallyResolvedData block exactly when it holds spatially resolved data.
C22_BlocksFollowData ==
    (/\ IsGetConfiguration
     /\ PlotSchemas
     /\ (call.self.molecular_data # None \/ call.self.spatially_resolved_data # None))
    => /\ result.exc # "AttributeError"
       /\ result.exc = ""
          => /\ "moleculeData" \in DOMAIN result.configuration
                <=> call.self.molecular_data # None
             /\ "spatiallyResolvedData" \in DOMAIN result.configuration
                <=> call.self.spatially_resolved_data # None

---------------------------------------------------------------------------
(* Claims about inline data (SpecConv) *)

\* whether the last operation was a conversion of a snapshot, a trajectory
\* or an array to molecular data
IsMolecularConversion ==
    call.op \in {"ASEAtomsToMolecularDataConverter.convert",
                 "ASETrajectoryToMolecularDataConverter.convert",
                 "ArrayToMolecularDataConverter.convert"}

\* the species label of entity i of the converted input
SpeciesOfEntity(i) ==
    IF call.op = "ArrayToMolecularDataConverter.convert"
    THEN Entities[i].species
    ELSE Entities[i].atom.symbol

\* C23: in inline mode, for each of the snapshot, trajectory and array
\* converters and every valid schema, the data list has one element per
\* entity, each a mapping whose key set is exactly the schema's columns plus
\* 'atom', with 'atom' holding the entity's species label.
C23_InlineRowKeys ==
    (IsMolecularConversion /\ call.data_output_file = None /\ result.exc = "")
    => LET data == result.output["moleculeData"]["data"]
       IN  /\ Len(data) = Len(Entities)
           /\ \A i \in 1..Len(data) :
                 /\ DOMAIN data[i] = Elems(call.properties.columns) \cup {"atom"}
                 /\ data[i]["atom"] = Str(SpeciesOfEntity(i))

---------------------------------------------------------------------------
(* Claims about framed properties (Spec) *)

\* C24: constructing a programmatic Plot with framed properties fails
\* whenever the frame column is missing from the columns of a molecular or
\* of a spatially resolved schema passed with them; hence in every
\* constructed Plot with framed properties, the frameProperty of its
\* plotSetup names a column present in every property list of the plotSetup.
C24_FrameColumnInEveryList ==
    /\ (/\ call.op = "Plot"
        /\ call.configuration_file = None
        /\ call.framed_properties # None
        /\ ~FrameColumnValid(call))
       => (result.exc # "" /\ plot = None)
    /\ (Programmatic /\ plot.framed_properties # None)
       => LET setup == Plot__get_plot_setup__(plot)
          IN  /\ "frameProperty" \in DOMAIN setup
              /\ \A k \in DOMAIN setup
                          \cap {"moleculePropertyList", "spatiallyResolvedPropertyList"} :
                    Contains(setup[k], setup["frameProperty"])
              /\ (IsBuild(call) /\ result.exc = "")
                    => result.configuration.plotSetup = setup

\* a document was built for a Plot constructed with framed properties, a
\* molecular and a spatially resolved schema, both property lists naming
\* the frame column
C24_Witness ==
    /\ Programmatic
    /\ plot.framed_properties # None
    /\ plot.molecular_properties # None
    /\ plot.spatially_resolved_properties # None
    /\ IsBuild(call)
    /\ result.exc = ""
    /\ result.configuration.plotSetup["frameProperty"] = "frame"
    /\ Contains(result.configuration.plotSetup["moleculePropertyList"], "frame")
    /\ Contains(result.configuration.plotSetup["spatiallyResolvedPropertyList"], "frame")

---------------------------------------------------------------------------
(* SpecData: a ThreeDView to which data is added again and again *)

\* the data objects a caller adds: molecular data of a snapshot and of a
\* file, spatially resolved data of a file and of an array
AddedData ==
    {MolecularData_init(Snapshot(0, MaxAtoms), None, None),
     MolecularData_init(Path("density.csv"), None, None),
     SpatiallyResolvedData_init(Path("density.csv"), None, None, None, None),
     SpatiallyResolvedData_init(Array(MaxAtoms, 4), List(<<10, 20, 30>>), None,
                                List(Species(MaxAtoms)), Lattice2)}

\* objects that are neither MolecularData nor SpatiallyResolvedData: a file
\* path and an array, passed without their wrapper
ForeignObjects ==
    {[class |-> "str", data |-> Path("density.csv")],
     [class |-> "ndarray", data |-> Array(MaxAtoms, 4)]}

\* the output_data_file arguments of add_data
OutputDataFiles == {None, Str("data.csv"), Str("other.csv")}

\* view.add_data(data, output_data_file), any number of times
AddDataAgain ==
    /\ call.op \in {"ThreeDView", "ThreeDView.add_data"}
    /\ \E data \in AddedData \cup ForeignObjects, output_data_file \in OutputDataFiles :
          \E r \in {ThreeDView_add_data(result.self, data, output_data_file)} :
              /\ call' = [op |-> "ThreeDView.add_data", self |-> result.self,
                          data |-> data, output_data_file |-> output_data_file]
              /\ result' = [exc |-> r.exc, self |-> r.self]
    /\ UNCHANGED <<plot, fs, process>>

NextData ==
    \/ NewThreeDView
    \/ AddDataAgain

SpecData == InitView /\ [][NextData]_vars

---------------------------------------------------------------------------
(* Claims about add_data (SpecData) *)

\* whether the last operation was an add_data
IsAddData == call.op = "ThreeDView.add_data"

\* whether the object handed to the last add_data is a data object
IsDataObject == call.data.class \in {"MolecularData", "SpatiallyResolvedData"}

\* whether the last add_data combined a file-path input with an output file
FileWithOutput ==
    IsDataObject /\ call.data.data.kind = "str" /\ call.output_data_file # None

\* C25: after any sequence of add_data calls the view holds at most one
\* molecular and at most one spatially resolved data source, each the most
\* recently added of its kind together with that call's output_data_file;
\* adding data of one kind leaves the stored data and output file of the
\* other kind unchanged; a rejected add_data (file-path input combined with
\* an output_data_file) changes nothing, so a stored file-path input never
\* has an output file associated with it.
C25_LatestDataPerKind ==
    /\ (IsAddData /\ FileWithOutput)
       => (result.exc # "" /\ result.self = call.self)
    /\ (IsAddData /\ IsDataObject /\ ~FileWithOutput
                  /\ call.data.class = "MolecularData")
       => /\ result.exc = ""
          /\ result.self = [call.self EXCEPT
                               !.molecular_data = call.data,
                               !.molecular_output_file = call.output_data_file]
    /\ (IsAddData /\ IsDataObject /\ ~FileWithOutput
                  /\ call.data.class = "SpatiallyResolvedData")
       => /\ result.exc = ""
          /\ result.self = [call.self EXCEPT
                               !.spatially_resolved_data = call.data,
                               !.spatially_resolved_output_file = call.output_data_file]
    /\ call.op \in {"ThreeDView", "ThreeDView.add_data"}
       => /\ (result.self.molecular_data # None
                 /\ result.self.molecular_data.data.kind = "str")
             => result.self.molecular_output_file = None
          /\ (result.self.spatially_resolved_data # None
                 /\ result.self.spatially_resolved_data.data.kind = "str")
             => result.self.spatially_resolved_output_file = None

\* the view held molecular data written to data.csv and spatially resolved
\* data written to other.csv; molecular data of a file was then added, and
\* the view holds it with no output file, the spatially resolved data and
\* its output file unchanged
C25_Witness ==
    /\ IsAddData
    /\ result.exc = ""
    /\ call.self.molecular_data # None
    /\ call.self.molecular_output_file = Str("data.csv")
    /\ call.self.spatially_resolved_output_file = Str("other.csv")
    /\ call.data = MolecularData_init(Path("density.csv"), None, None)
    /\ result.self.molecular_data = call.data
    /\ result.self.molecular_output_file = None
    /\ result.self.spatially_resolved_data = call.self.spatially_resolved_data
    /\ result.self.spatially_resolved_output_file = Str("other.csv")

\* C26: add_data called with an object that is neither a
\* SpatiallyResolvedData nor a MolecularData fails with an 'Unknown data
\* format' error (a ValueError) rather than returning normally.
C26_ForeignObjectRejected ==
    (IsAddData /\ ~IsDataObject) => result.exc = "ValueError"

---------------------------------------------------------------------------
(* Claims about snapshots under framed properties (Spec) *)

\* whether the view behind reference v holds molecular data of a snapshot
HoldsSnapshot(v) ==
    /\ Heap[v].view_type = "3DView"
    /\ Heap[v].molecular_data # None
    /\ Heap[v].molecular_data.data.kind = "Atoms"

\* whether the session's Plot is programmatic, has framed properties and
\* holds a view with molecular data of a snapshot
FramedWithSnapshot ==
    /\ Programmatic
    /\ plot.framed_properties # None
    /\ \E i \in 1..Len(plot.views) : HoldsSnapshot(plot.views[i])

---------------------------------------------------------------------------
(* The message flag: SpecMessage *)

\* the longest standard output followed
MaxLines == 3

\* the texts handed to message.warning and message.information
Messages == {"Cu: System Dimensions are overridden by user provided values",
             "saved"}

\* the lattices handed to the geometry step in a session that watches its
\* messages
MessageLattices ==
    {Cell(<<<<2, 0, 0>>, <<0, 2, 0>>, <<0, 0, 2>>>>),
     Cell(<<<<3, 4, 0>>, <<0, 2, 0>>, <<1, 2, 2>>>>)}

\* electrolens.suppress_messages = value: rebinds the name in the namespace
\* of the package
SetPackageFlag ==
    /\ \E value \in BOOLEAN :
          /\ process' = [process EXCEPT !.electrolens.suppress_messages = value]
          /\ call' = [op |-> "electrolens.suppress_messages", value |-> value]
    /\ result' = [exc |-> ""]
    /\ UNCHANGED <<plot, fs>>

\* electrolens.message.suppress_messages = value: rebinds the name in the
\* namespace of the message module
SetModuleFlag ==
    /\ \E value \in BOOLEAN :
          /\ process' = [process EXCEPT !.message.suppress_messages = value]
          /\ call' = [op |-> "electrolens.message.suppress_messages", value |-> value]
    /\ result' = [exc |-> ""]
    /\ UNCHANGED <<plot, fs>>

\* message.warning(msg)
Warning ==
    /\ Len(process.stdout) < MaxLines
    /\ \E msg \in Messages :
          /\ process' = warning(process, msg)
          /\ call' = [op |-> "warning", msg |-> msg]
    /\ result' = [exc |-> ""]
    /\ UNCHANGED <<plot, fs>>

\* message.information(msg)
Information ==
    /\ Len(process.stdout) < MaxLines
    /\ \E msg \in Messages :
          /\ process' = information(process, msg)
          /\ call' = [op |-> "information", msg |-> msg]
    /\ result' = [exc |-> ""]
    /\ UNCHANGED <<plot, fs>>

\* _init_atoms_(output, atoms_cell) with its warnings
InitAtomsMessages ==
    /\ Len(process.stdout) + 2 <= MaxLines
    /\ \E output \in GeometryOutputs, atoms_cell \in MessageLattices :
          /\ process' = _init_atoms_messages(process, output)
          /\ call' = [op |-> "_init_atoms_", output |-> output,
                      atoms_cell |-> atoms_cell]
          /\ result' = [exc |-> "", output |-> _init_atoms_(output, atoms_cell)]
    /\ UNCHANGED <<plot, fs>>

NextMessage ==
    \/ SetPackageFlag
    \/ SetModuleFlag
    \/ Warning
    \/ Information
    \/ InitAtomsMessages

SpecMessage == Init /\ [][NextMessage]_vars

---------------------------------------------------------------------------
(* Claims about the message flag (SpecMessage) *)

\* whether the step called a function that emits messages
IsMessageStep == call'.op \in {"warning", "information", "_init_atoms_"}

\* C28: while the package-level flag electrolens.suppress_messages is True,
\* no warning or information call and no geometry step prints anything; while
\* it is False, every warning and information call prints its line
C28_PackageFlagSuppresses ==
    [][IsMessageStep =>
          IF process.electrolens.suppress_messages
          THEN process'.stdout = process.stdout
          ELSE call'.op \in {"warning", "information"}
                  => Len(process'.stdout) = Len(process.stdout) + 1]_vars

---------------------------------------------------------------------------
(* Claims about the construction mode (Spec) *)

\* whether add_view is rejected by the session's Plot, whatever the view
AddViewRejected == \A v \in ViewRefs : Plot_add_view(plot, v).exc # ""

\* whether building the document of the session's Plot reads the
\* configuration file: the build opens it first, or fails for not finding it
BuildReplays ==
    /\ plot.input_configuration_file # None
    /\ \E c \in {Plot__create_configuration__(plot, Heap, fs)} :
          \/ c.exc = "FileNotFoundError"
          \/ /\ c.handles # <<>>
             /\ c.handles[1] = Opened(plot.input_configuration_file.s)

\* C29: for every constructed Plot, add_view is rejected exactly when the
\* build of the document replays the configuration file
C29_ModeConsistent ==
    plot # None => (AddViewRejected <=> BuildReplays)

---------------------------------------------------------------------------
(* Claims about the order of build and side effect (Spec) *)

\* whether the file at path is the same before and after the step, absent
\* or with the same contents
FileUntouched(path) ==
    /\ (path \in DOMAIN fs') <=> (path \in DOMAIN fs)
    /\ (path \in DOMAIN fs) => (fs'[path] = fs[path])

\* C30: show and save_configuration build the whole document before their
\* side effect.  A save_configuration whose build fails leaves the output
\* file as it was, absent or with its former contents, and a show whose build
\* fails never starts the render shell; a show whose build succeeds starts
\* the shell exactly once, with the document the build returned (for a
\* programmatic Plot, one element for each view held), and a
\* save_configuration never starts it.
C30_BuildBeforeSideEffect ==
    [][/\ (call'.op = "save_configuration")
          => /\ result'.loaded = <<>>
             /\ (result'.exc # "") => FileUntouched(call'.output_json_file)
       /\ (call'.op = "show" /\ result'.exc # "")
          => /\ result'.loaded = <<>>
             /\ FileUntouched("out.json")
       /\ (call'.op = "show" /\ result'.exc = "")
          => \E b \in {Plot__create_configuration__(plot, Heap, fs)} :
                /\ b.exc = ""
                /\ result'.loaded = <<b.configuration>>
                /\ {"views", "plotSetup"} \subseteq DOMAIN b.configuration
                /\ (plot.input_configuration_file = None)
                      => Len(b.configuration.views) = Len(plot.views)
                /\ FileUntouched("out.json")]_vars

\* C30 witness: a save_configuration failed for lack of views while the
\* output file, written by an earlier save, was there
C30_Witness ==
    /\ call.op = "save_configuration"
    /\ result.exc = "ValueError"
    /\ plot.input_configuration_file = None
    /\ plot.views = <<>>
    /\ call.output_json_file \in DOMAIN fs
    /\ result.loaded = <<>>

=============================================================================
